---- MODULE Spec2Model ----
(***************************************************************************)
(* Focus management utilities of the landing page (src/src/utils/          *)
(* validation.js, accessibility section): the focusable-element query,     *)
(* setFocus/restoreFocus, createFocusTrap and createRovingTabindex, run    *)
(* against a small document.                                               *)
(*                                                                         *)
(* The document holds one container with NumInside child elements, one     *)
(* button before it and one button after it in document order.  A focus    *)
(* trap is created over the container; a roving-tabindex controller may be *)
(* created over the container's children.  Every event dispatch (listeners *)
(* in order, then the browser's default action) is one atomic step, as in  *)
(* the single-threaded event loop.                                         *)
(***************************************************************************)
EXTENDS Integers, Sequences, FiniteSets, TLC

\* Number of child elements of the trapped container.
NumInside == 3

\* ------------------------------------------------------------------ nodes

Inside == 1..NumInside
After == NumInside + 1
Before == NumInside + 2
\* document.body: the active element when nothing is focused.
Body == NumInside + 3
\* null / undefined
Null == NumInside + 4

Outside == {Before, After}
Nodes == Inside \cup Outside

\* Document (depth-first) order of the elements.
DocOrder == <<Before>> \o [i \in 1..NumInside |-> i] \o <<After>>

DocPos(el) == CHOOSE i \in 1..Len(DocOrder) : DocOrder[i] = el

\* container.contains(node)
Contains(node) == node \in Inside

Range(seq) == {seq[i] : i \in 1..Len(seq)}

Last(seq) == seq[Len(seq)]

\* KEYS, plus one key no handler knows
KEYS == {"Tab", "Escape", "ArrowUp", "ArrowDown", "ArrowLeft", "ArrowRight",
         "Home", "End", "Enter"}

\* Element kinds placed in the container.
Button == [tag |-> "button", disabled |-> FALSE, hidden |-> FALSE, ariaHidden |-> FALSE]
ButtonDisabled == [tag |-> "button", disabled |-> TRUE, hidden |-> FALSE, ariaHidden |-> FALSE]
Div == [tag |-> "div", disabled |-> FALSE, hidden |-> FALSE, ariaHidden |-> FALSE]

\* (element, initial tabindex attribute) pairs a container child is drawn from
Templates ==
    { <<Button, "none">>, <<Button, "-1">>, <<ButtonDisabled, "none">>,
      <<Div, "-1">> }

VARIABLES
    dom,              \* el -> [tag, disabled, hidden, ariaHidden]
    tabindex,         \* el -> "none" | "0" | "-1"   (the tabindex attribute
                      \* of the nodes and of document.body)
    activeElement,    \* document.activeElement (Body when nothing is focused)
    state,            \* focus trap: [active, returnFocus, allowOutsideClick]
    options,          \* createFocusTrap options as passed (Null: not supplied)
    docListeners,     \* trap handlers registered on document
    elements,         \* roving tabindex: managed elements (<<>>: no controller)
    orientation,      \* roving tabindex option
    wrap,             \* roving tabindex option
    currentIndex,     \* roving tabindex: 0-based index
    keydownListeners, \* managed elements carrying handleKeydown
    ev,               \* the last operation or event and what its handlers did
    focusBeforeActivate \* document.activeElement on entry of the last activate()

focusVars == <<dom, tabindex, activeElement, state, options, docListeners,
               elements, orientation, wrap, currentIndex, keydownListeners, ev,
               focusBeforeActivate>>

\* A document handed to getFocusableElements, and what the call returned.
VARIABLES
    children,         \* the document's elements in document order
    queried           \* [done, result]: positions returned by the call, once made

queryVars == <<children, queried>>

\* The screen-reader announcer: module state, pending timers and what an
\* observer of the live region has seen.
VARIABLES
    announcementQueue, \* sequence of [message, politeness, delay]
    liveRegion,        \* [exists, textContent, ariaLive]
    appendedRegions,   \* number of elements the announcer appended to the body
    timers,            \* pending setTimeout callbacks, in creation order
    announced,         \* the valid announce calls made, in call order
    written,           \* the messages written into the region, in order
    shownFor,          \* ms since the region's text was last written (capped)
    elapsed            \* whether time has passed since the last announce call

announceVars == <<announcementQueue, liveRegion, appendedRegions, timers, announced, written,
                  shownFor, elapsed>>

\* A colour string under construction and the last getContrastRatio call.
VARIABLES
    typed,            \* the characters of the colour string typed so far
    contrast          \* [done, color1, color2, ratio] of the last call

contrastVars == <<typed, contrast>>

\* The message typed into the contact form and its last validation.
VARIABLES
    fieldValue,       \* the message field's value: runs [ch, n] of n equal characters
    validated         \* [by, isRequired, isValid, error] of the last validation

messageVars == <<fieldValue, validated>>

\* The contact form's submission, with the submit handlers of main.js and of
\* contact-form.js both registered on the form.
VARIABLES
    formStatus,       \* #form-status: [textContent, className, display]
    formSubmitting,   \* main.js appState.formSubmitting
    isSubmitting,     \* contact-form.js formState.isSubmitting
    submitDisabled,   \* the submit button's disabled property
    submissions,      \* per submit event: [fetch], the state of its POST
    submitTimers,     \* pending setTimeout callbacks of the handlers
    statusLog,        \* the status messages shown, with their submit event
    contactFormListener \* whether contact-form.js's submit listener is attached

submitVars == <<formStatus, formSubmitting, isSubmitting, submitDisabled,
                submissions, submitTimers, statusLog, contactFormListener>>

\* Image loading (lazy-loading.js): per element the data-src attribute,
\* the loadingStates entry and the load last started, and the pending
\* delay() timers.
VARIABLES
    imageSrc,         \* el -> whether the element has a data-src attribute
    loadingStates,    \* the elements that have an entry in the WeakMap
    imageLoad,        \* el -> the load last started for it
    loadCalls,        \* el -> number of loadImage calls made for it
    imageTimers       \* pending delay() timers, in creation order

imageVars == <<imageSrc, loadingStates, imageLoad, loadCalls, imageTimers>>

utilVars == <<queryVars, announceVars, contrastVars, messageVars, submitVars>>

\* Smooth scrolling (lazy-loading.js): scrollState, the callbacks the
\* browser holds for the next animation frame, and the scrolls started.
VARIABLES
    scrollState,      \* [isScrolling, animationFrameId (0 stands for null),
                      \*  scrollLocked, scrollPosition]
    frameCallbacks,   \* pending requestAnimationFrame callbacks: [id, scroll]
    frameIds,         \* number of requestAnimationFrame ids handed out
    scrolls,          \* per smoothScrollToPosition call: its closure and promise
    pageYOffset       \* window.pageYOffset

scrollVars == <<scrollState, frameCallbacks, frameIds, scrolls, pageYOffset>>

\* The contact form's field values and the verdicts of the two validateForm
\* functions on them.
VARIABLES
    formFields,       \* name, email, phone, service, message: the values typed
    consentChecked,   \* the consent checkbox
    judged            \* [done, required, byMain, byContactForm] of the last submit

formVars == <<formFields, consentChecked, judged>>

\* The mobile navigation menu (navigation.js).
VARIABLES
    isMenuOpen,       \* navigationState.isMenuOpen
    mobileViewport,   \* window.innerWidth < MOBILE_BREAKPOINT
    navFocus,         \* document.activeElement: "body", "navToggle", a link of
                      \* the menu, "content" after it, or a "section"
    navTimers,        \* pending setTimeout callbacks, in creation order
    menuOpens,        \* number of times openMobileMenu opened the menu
    navIsScrolling,   \* navigationState.isScrolling
    navListeners      \* whether navigation.js's event listeners are attached

navVars == <<isMenuOpen, mobileViewport, navFocus, navTimers, menuOpens,
             navIsScrolling, navListeners>>

\* Two focus traps of one document (validation.js createFocusTrap).
VARIABLES
    pairTraps,        \* trap -> [created, active, returnFocus, allowOutsideClick]
    pairListeners,    \* traps whose handleOutsideClick document holds, in order
    pairFocus,        \* document.activeElement ("body" when nothing is focused)
    pairDisabled,     \* the buttons that carry the disabled attribute
    pairEvent         \* the last call or event, as its handlers left it

pairVars == <<pairTraps, pairListeners, pairFocus, pairDisabled, pairEvent>>

pageVars == <<imageVars, scrollVars, formVars, navVars, pairVars>>

\* The state of the utilities the focus controllers do not touch.
restVars == <<utilVars, pageVars>>

vars == <<focusVars, restVars>>

\* The mutable program state handed through handlers.
Cur ==
    [activeElement |-> activeElement, tabindex |-> tabindex, state |-> state,
     docListeners |-> docListeners, currentIndex |-> currentIndex,
     keydownListeners |-> keydownListeners]

Commit(s) ==
    /\ activeElement' = s.activeElement
    /\ tabindex' = s.tabindex
    /\ state' = s.state
    /\ docListeners' = s.docListeners
    /\ currentIndex' = s.currentIndex
    /\ keydownListeners' = s.keydownListeners

\* --------------------------------------------------- focusable elements

\* FOCUSABLE_ELEMENTS selector, for the element kinds of this document
MatchesSelector(s, el) ==
    \/ dom[el].tag = "button" /\ ~dom[el].disabled
    \/ s.tabindex[el] \notin {"none", "-1"}

getFocusableElements(s) ==
    SelectSeq([i \in 1..NumInside |-> i],
              LAMBDA el : /\ MatchesSelector(s, el)
                          /\ ~dom[el].hidden
                          /\ ~dom[el].disabled
                          /\ ~dom[el].ariaHidden)

getFirstFocusableElement(s) ==
    LET els == getFocusableElements(s)
    IN  IF Len(els) > 0 THEN els[1] ELSE Null

\* Whether element.focus() makes the element the active element.
CanFocus(s, el) ==
    \/ /\ el \in Nodes
       /\ ~dom[el].hidden
       /\ \/ dom[el].tag = "button" /\ ~dom[el].disabled
          \/ dom[el].tag # "button" /\ s.tabindex[el] # "none"
    \/ /\ el = Body
       /\ s.tabindex[Body] # "none"

\* Whether the element is a stop of the browser's sequential (Tab) navigation.
Tabbable(s, el) == CanFocus(s, el) /\ s.tabindex[el] # "-1"

\* ------------------------------------------------------ roving tabindex

Managed == Range(elements)

IndexOf(el) == (CHOOSE i \in 1..Len(elements) : elements[i] = el) - 1

updateTabindex(s) ==
    [s EXCEPT !.tabindex =
        [el \in DOMAIN s.tabindex |->
            IF el \in Managed
            THEN IF IndexOf(el) = s.currentIndex THEN "0" ELSE "-1"
            ELSE s.tabindex[el]]]

\* onFocus that records the index and leaves the attributes alone
onFocusIndexOnly(s, index) == [s EXCEPT !.currentIndex = index]

\* the focus listener registered on elements[index]
onFocus(s, index) == updateTabindex([s EXCEPT !.currentIndex = index])

\* element.focus(): the focus event fires when the active element changes
focus(s, el) ==
    IF CanFocus(s, el) /\ s.activeElement # el
    THEN LET s1 == [s EXCEPT !.activeElement = el]
         IN  IF el \in Managed THEN onFocus(s1, IndexOf(el)) ELSE s1
    ELSE s

\* setFocus called without options: preventScroll and setTabIndex are false
NoFocusOptions == [preventScroll |-> FALSE, setTabIndex |-> FALSE]

\* setFocus(element, options): with setTabIndex an element that has no
\* tabindex attribute is given tabindex="-1" before element.focus()
setFocus(s, el, focusOptions) ==
    IF el \in Nodes \cup {Body}
    THEN LET s1 == IF /\ focusOptions.setTabIndex
                      /\ s.tabindex[el] = "none"
                   THEN [s EXCEPT !.tabindex[el] = "-1"]
                   ELSE s
         IN  focus(s1, el)
    ELSE s

restoreFocus(s, el) ==
    IF el \in Nodes \cup {Body} THEN setFocus(s, el, NoFocusOptions) ELSE s

\* moveTo without its range check
moveToUnchecked(s, index) ==
    LET s1 == updateTabindex([s EXCEPT !.currentIndex = index])
    IN  IF index \in 0..(Len(elements) - 1)
        THEN setFocus(s1, elements[s1.currentIndex + 1], NoFocusOptions)
        ELSE s1

moveTo(s, index) ==
    IF index < 0 \/ index >= Len(elements)
    THEN s
    ELSE LET s1 == updateTabindex([s EXCEPT !.currentIndex = index])
         IN  setFocus(s1, elements[s1.currentIndex + 1], NoFocusOptions)

\* ------------------------------------------------------------ events

\* A dispatch in progress: the program state and the event object.
Ctx(s, e) == [s |-> s, e |-> e]

Event(op, key, shiftKey, target) ==
    [op |-> op, key |-> key, shiftKey |-> shiftKey, target |-> target,
     defaultPrevented |-> FALSE, propagationStopped |-> FALSE,
     called |-> {}, handlersMovedFocus |-> FALSE,
     \* as the listeners of the target element return
     preventedAtTarget |-> FALSE, indexAtTarget |-> Null]

\* A direct call (no event object): recorded with the same shape.
Call(op, arg) == Event(op, "", FALSE, arg)

preventDefault(e) == [e EXCEPT !.defaultPrevented = TRUE]

stopPropagation(e) == [e EXCEPT !.propagationStopped = TRUE]

Called(c, name) == [c EXCEPT !.e.called = @ \cup {name}]

\* -------------------------------------------------------- focus trap

\* handleTabKey that wraps at the ends only, not when focus is outside
handleTabKeyEndsOnly(c0) ==
    LET c == Called(c0, "handleTabKey")
        focusableElements == getFocusableElements(c.s)
        currentElement == c.s.activeElement
    IN  IF c.e.key # "Tab" THEN c
        ELSE IF Len(focusableElements) = 0 THEN Ctx(c.s, preventDefault(c.e))
        ELSE IF c.e.shiftKey
        THEN IF currentElement = focusableElements[1]
             THEN Ctx(setFocus(c.s, Last(focusableElements), NoFocusOptions), preventDefault(c.e))
             ELSE c
        ELSE IF currentElement = Last(focusableElements)
             THEN Ctx(setFocus(c.s, focusableElements[1], NoFocusOptions), preventDefault(c.e))
             ELSE c

handleTabKey(c0) ==
    LET c == Called(c0, "handleTabKey")
        focusableElements == getFocusableElements(c.s)
        firstElement == focusableElements[1]
        lastElement == Last(focusableElements)
        currentElement == c.s.activeElement
    IN  IF c.e.key # "Tab" THEN c
        ELSE IF Len(focusableElements) = 0 THEN Ctx(c.s, preventDefault(c.e))
        ELSE IF c.e.shiftKey
        THEN IF currentElement = firstElement \/ ~Contains(currentElement)
             THEN Ctx(setFocus(c.s, lastElement, NoFocusOptions), preventDefault(c.e))
             ELSE c
        ELSE IF currentElement = lastElement \/ ~Contains(currentElement)
             THEN Ctx(setFocus(c.s, firstElement, NoFocusOptions), preventDefault(c.e))
             ELSE c

TrapHandlers == {"handleTabKey", "handleEscapeKey", "handleOutsideClick"}

\* activate without its early return
activateUnguarded(s) ==
    LET s1 == [s EXCEPT !.state.active = TRUE,
                        !.docListeners = @ \cup TrapHandlers]
        firstElement == getFirstFocusableElement(s1)
    IN  IF options.initialFocus # Null
        THEN setFocus(s1, options.initialFocus, NoFocusOptions)
        ELSE IF firstElement # Null THEN setFocus(s1, firstElement, NoFocusOptions) ELSE s1

activate(s) ==
    IF s.state.active THEN s
    ELSE LET s1 == [s EXCEPT !.state.active = TRUE,
                             !.docListeners = @ \cup TrapHandlers]
             firstElement == getFirstFocusableElement(s1)
         IN  IF options.initialFocus # Null
             THEN setFocus(s1, options.initialFocus, NoFocusOptions)
             ELSE IF firstElement # Null THEN setFocus(s1, firstElement, NoFocusOptions) ELSE s1

\* release that leaves the captured mousedown listener on document
releaseKeydownOnly(s) ==
    IF ~s.state.active THEN s
    ELSE LET s1 == [s EXCEPT !.state.active = FALSE,
                             !.docListeners = @ \ {"handleTabKey", "handleEscapeKey"}]
         IN  IF s1.state.returnFocus # Null
             THEN restoreFocus(s1, s1.state.returnFocus)
             ELSE s1

release(s) ==
    IF ~s.state.active THEN s
    ELSE LET s1 == [s EXCEPT !.state.active = FALSE,
                             !.docListeners = @ \ TrapHandlers]
         IN  IF s1.state.returnFocus # Null
             THEN restoreFocus(s1, s1.state.returnFocus)
             ELSE s1

\* handleEscapeKey that releases only while focus is in the container
handleEscapeKeyInside(c0) ==
    LET c == Called(c0, "handleEscapeKey")
    IN  IF c.e.key = "Escape" /\ Contains(c.s.activeElement)
        THEN Ctx(release(c.s), c.e) ELSE c

handleEscapeKey(c0) ==
    LET c == Called(c0, "handleEscapeKey")
    IN  IF c.e.key = "Escape" THEN Ctx(release(c.s), c.e) ELSE c

\* handleOutsideClick that does not read allowOutsideClick
handleOutsideClickAlways(c0) ==
    LET c == Called(c0, "handleOutsideClick")
        firstElement == getFirstFocusableElement(c.s)
    IN  IF ~Contains(c.e.target)
        THEN LET e1 == stopPropagation(preventDefault(c.e))
             IN  IF firstElement # Null
                 THEN Ctx(setFocus(c.s, firstElement, NoFocusOptions), e1)
                 ELSE Ctx(c.s, e1)
        ELSE c

handleOutsideClick(c0) ==
    LET c == Called(c0, "handleOutsideClick")
        firstElement == getFirstFocusableElement(c.s)
    IN  IF ~c.s.state.allowOutsideClick /\ ~Contains(c.e.target)
        THEN LET e1 == stopPropagation(preventDefault(c.e))
             IN  IF firstElement # Null
                 THEN Ctx(setFocus(c.s, firstElement, NoFocusOptions), e1)
                 ELSE Ctx(c.s, e1)
        ELSE c

\* ------------------------------------------------ roving tabindex keys

BackKey == IF orientation = "horizontal" THEN "ArrowLeft"
           ELSE IF orientation = "vertical" THEN "ArrowUp" ELSE ""

ForwardKey == IF orientation = "horizontal" THEN "ArrowRight"
              ELSE IF orientation = "vertical" THEN "ArrowDown" ELSE ""

\* the Home / End branch of handleKeydown
homeEnd(s, key) ==
    IF key = "Home" THEN moveTo(s, 0)
    ELSE IF key = "End" THEN moveTo(s, Len(elements) - 1)
    ELSE s

\* arrows that always wrap, whatever the wrap option
arrowsAlwaysWrap(s, key) ==
    IF key = BackKey
    THEN moveTo(s, IF s.currentIndex - 1 < 0
                   THEN Len(elements) - 1 ELSE s.currentIndex - 1)
    ELSE IF key = ForwardKey
    THEN moveTo(s, IF s.currentIndex + 1 >= Len(elements)
                   THEN 0 ELSE s.currentIndex + 1)
    ELSE s

\* the orientation branch of handleKeydown
arrows(s, key) ==
    IF key = BackKey
    THEN moveTo(s, IF wrap /\ s.currentIndex - 1 < 0
                   THEN Len(elements) - 1 ELSE s.currentIndex - 1)
    ELSE IF key = ForwardKey
    THEN moveTo(s, IF wrap /\ s.currentIndex + 1 >= Len(elements)
                   THEN 0 ELSE s.currentIndex + 1)
    ELSE s

\* the `handled` flag of handleKeydown
handled(key) == key \in {BackKey, ForwardKey, "Home", "End"}

\* the end of handleKeydown, which lets a handled event bubble
finishKeydownBubbles(s, e) ==
    IF handled(e.key) THEN Ctx(s, preventDefault(e)) ELSE Ctx(s, e)

\* the end of handleKeydown: if (handled) preventDefault, stopPropagation
finishKeydown(s, e) ==
    IF handled(e.key) THEN Ctx(s, stopPropagation(preventDefault(e))) ELSE Ctx(s, e)

handleKeydown(c0) ==
    finishKeydown(homeEnd(arrows(c0.s, c0.e.key), c0.e.key),
                  Called(c0, "handleKeydown").e)

destroy(s) == [s EXCEPT !.keydownListeners = @ \ Managed]

\* ------------------------------------------------------ event dispatch

\* The event as the listeners of the target element return.
atTarget(c) ==
    [c EXCEPT !.e.preventedAtTarget = c.e.defaultPrevented,
              !.e.indexAtTarget = c.s.currentIndex]

\* Listeners of the target element (the active element).
TargetListeners(c0) ==
    IF c0.s.activeElement \in c0.s.keydownListeners
    THEN atTarget(handleKeydown(c0))
    ELSE c0

\* document's first keydown listener
TabListener(c) ==
    IF "handleTabKey" \in c.s.docListeners THEN handleTabKey(c) ELSE c

\* document's second keydown listener; onDocument is the listener list as
\* the event reached document: a listener removed meanwhile is not called.
EscapeListener(onDocument, c) ==
    IF "handleEscapeKey" \in onDocument /\ "handleEscapeKey" \in c.s.docListeners
    THEN handleEscapeKey(c)
    ELSE c

\* Bubbling to document, unless propagation was stopped.
DocumentListeners(c) ==
    IF c.e.propagationStopped THEN c
    ELSE EscapeListener(c.s.docListeners, TabListener(c))

\* Whether the listeners of the dispatch moved the focus.
MovedFocus(c0, c) ==
    [c EXCEPT !.e.handlersMovedFocus = (c.s.activeElement # c0.s.activeElement)]

DispatchKeydown(c0) == MovedFocus(c0, DocumentListeners(TargetListeners(c0)))

\* The browser's sequential focus navigation: the next (previous) tabbable
\* element in document order, from the active element or from the document's
\* start (end) when nothing is focused; past the last one focus leaves the page.
NativeTabTarget(s, shiftKey) ==
    LET from == IF s.activeElement \in Nodes THEN DocPos(s.activeElement)
                ELSE IF shiftKey THEN Len(DocOrder) + 1 ELSE 0
        stops == {i \in 1..Len(DocOrder) :
                    /\ Tabbable(s, DocOrder[i])
                    /\ IF shiftKey THEN i < from ELSE i > from}
    IN  IF stops = {} THEN Body
        ELSE IF shiftKey
        THEN DocOrder[CHOOSE i \in stops : \A j \in stops : j <= i]
        ELSE DocOrder[CHOOSE i \in stops : \A j \in stops : i <= j]

\* The focus change the browser makes itself (Tab, pointer).
BrowserFocus(s, el) ==
    IF el \in Nodes THEN focus(s, el) ELSE [s EXCEPT !.activeElement = Body]

DefaultKeydown(c) ==
    IF c.e.key = "Tab" /\ ~c.e.defaultPrevented
    THEN Ctx(BrowserFocus(c.s, NativeTabTarget(c.s, c.e.shiftKey)), c.e)
    ELSE c

\* The capturing listener of document runs before anything else.
CaptureListener(c) ==
    IF "handleOutsideClick" \in c.s.docListeners THEN handleOutsideClick(c) ELSE c

DispatchMousedown(c0) == MovedFocus(c0, CaptureListener(c0))

\* A pointer-down focuses its target, or nothing when the target takes no focus.
DefaultMousedown(c) ==
    IF c.e.defaultPrevented THEN c
    ELSE IF CanFocus(c.s, c.e.target) THEN Ctx(BrowserFocus(c.s, c.e.target), c.e)
    ELSE Ctx(BrowserFocus(c.s, Body), c.e)

\* One event: its listeners, then the browser's default action.
Dispatch(c0) ==
    IF c0.e.op = "keydown"
    THEN DefaultKeydown(DispatchKeydown(c0))
    ELSE DefaultMousedown(DispatchMousedown(c0))

\* ------------------------------------------------------------ actions

Static == UNCHANGED <<dom, options, elements, orientation, wrap, restVars>>

\* The observation of activate() lasts while the trap stays active.
Observe == focusBeforeActivate' = IF state'.active THEN focusBeforeActivate ELSE Null

Activate ==
    /\ Commit(activate(Cur))
    /\ ev' = Call("activate", Null)
    /\ focusBeforeActivate' =
          IF state.active THEN focusBeforeActivate ELSE activeElement
    /\ Static

Release ==
    /\ Commit(release(Cur))
    /\ ev' = Call("release", Null)
    /\ Observe
    /\ Static

\* The step of one event: the state and the event object it leaves.
Finish(c) == Commit(c.s) /\ ev' = c.e

Dispatched(c0) == Finish(Dispatch(c0))

\* The keys pressed: without a roving group the navigation keys reach no
\* handler that knows them, and Enter stands for all of them.
PressedKeys == IF elements = <<>> THEN {"Tab", "Escape", "Enter"} ELSE KEYS

\* A key press: the event targets the active element.
KeyDown ==
    \E key \in PressedKeys, shiftKey \in BOOLEAN :
        /\ shiftKey => key = "Tab"
        /\ Dispatched(Ctx(Cur, Event("keydown", key, shiftKey, Null)))
        /\ Observe
        /\ Static

MouseDown ==
    \E target \in Nodes \cup {Body} :
        /\ Dispatched(Ctx(Cur, Event("mousedown", "", FALSE, target)))
        /\ Observe
        /\ Static

\* Another script calls element.focus().
ScriptFocus ==
    \E el \in Nodes :
        /\ Commit(focus(Cur, el))
        /\ ev' = Call("focus", Null)
        /\ Observe
        /\ Static

\* The target of the page's skip link ("#main"): the content that follows
\* the container.
SkipLinkTarget == After

\* The click listener initializeSkipLinks puts on the skip link.
SkipLinkClick ==
    /\ Commit(setFocus(Cur, SkipLinkTarget, [preventScroll |-> FALSE,
                                             setTabIndex |-> TRUE]))
    /\ ev' = Call("skipLink", Null)
    /\ Observe
    /\ Static

MoveTo ==
    \E index \in (0 - 1)..Len(elements) :
        /\ elements # <<>>
        /\ Commit(moveTo(Cur, index))
        /\ ev' = Call("moveTo", index)
        /\ Observe
        /\ Static

Destroy ==
    /\ elements # <<>>
    /\ Commit(destroy(Cur))
    /\ ev' = Call("destroy", Null)
    /\ Observe
    /\ Static

\* No document has been built for getFocusableElements.
NotQueried == [done |-> FALSE, result |-> <<>>]

NoDocument == children = <<>> /\ queried = NotQueried

\* No announce call has been made: the module's initial state.
NoRegion == [exists |-> FALSE, textContent |-> "", ariaLive |-> "none"]

NoAnnouncement ==
    /\ announcementQueue = <<>>
    /\ liveRegion = NoRegion
    /\ appendedRegions = 0
    /\ timers = <<>>
    /\ announced = <<>>
    /\ written = <<>>
    /\ shownFor = 0
    /\ elapsed = FALSE

\* A value of type number: NaN, or a scaled integer.
Number(n) == [nan |-> FALSE, value |-> n]

NaN == [nan |-> TRUE, value |-> 0]

\* An argument: a string (its characters), or null.
Str(chars) == [isString |-> TRUE, chars |-> chars]

NullArg == [isString |-> FALSE, chars |-> <<>>]

\* getContrastRatio not called with the colour as typed so far.
NotComputed ==
    [done |-> FALSE, color1 |-> NullArg, color2 |-> NullArg, ratio |-> Number(0)]

NoContrast == typed = <<>> /\ contrast = NotComputed

\* The message has not been validated as it stands.
NotValidated == [by |-> "none", isRequired |-> TRUE, isValid |-> FALSE, error |-> ""]

\* The empty message field of the page as loaded.
NoMessage == fieldValue = <<>> /\ validated = NotValidated

\* The contact form as loaded: nothing submitted, the status region empty.
NoSubmission ==
    /\ formStatus = [textContent |-> "", className |-> "sr-only", display |-> ""]
    /\ formSubmitting = FALSE
    /\ isSubmitting = FALSE
    /\ submitDisabled = FALSE
    /\ submissions = <<>>
    /\ submitTimers = <<>>
    /\ statusLog = <<>>
    /\ contactFormListener = TRUE

ImageElements == {"hero"}

\* No load started for an element.
NotLoaded ==
    [phase |-> "none", retryCount |-> 0, maxRetries |-> 0, retryDelay |-> 0,
     attempts |-> 0, waits |-> <<>>, started |-> 0]

\* The lazy elements carry data-src and nothing has been loaded.
NoImageLoad ==
    /\ imageSrc = [el \in ImageElements |-> TRUE]
    /\ loadingStates = {}
    /\ imageLoad = [el \in ImageElements |-> NotLoaded]
    /\ loadCalls = [el \in ImageElements |-> 0]
    /\ imageTimers = <<>>

\* No scroll started: the page is at the top.
NoScroll ==
    /\ scrollState = [isScrolling |-> FALSE, animationFrameId |-> 0,
                      scrollLocked |-> FALSE, scrollPosition |-> 0]
    /\ frameCallbacks = {}
    /\ frameIds = 0
    /\ scrolls = <<>>
    /\ pageYOffset = 0

NotJudged ==
    [done |-> FALSE, required |-> {}, byMain |-> FALSE, byContactForm |-> FALSE]

\* The contact form as loaded: every field empty, the checkbox unchecked.
EmptyForm ==
    /\ formFields = [name |-> <<>>, email |-> <<>>, phone |-> <<>>,
                     service |-> <<>>, message |-> <<>>]
    /\ consentChecked = FALSE
    /\ judged = NotJudged

\* The navigation as initialised on a mobile viewport: menu closed.
MenuClosed ==
    /\ isMenuOpen = FALSE
    /\ mobileViewport = TRUE
    /\ navFocus = "body"
    /\ navTimers = <<>>
    /\ menuOpens = 0
    /\ navIsScrolling = FALSE
    /\ navListeners = TRUE

\* No focus trap created on either container, nothing focused.
NoTraps ==
    /\ pairTraps = [t \in {"A", "B"} |->
                       [created |-> FALSE, active |-> FALSE,
                        returnFocus |-> "body", allowOutsideClick |-> FALSE]]
    /\ pairListeners = <<>>
    /\ pairFocus = "body"
    /\ pairDisabled = {}
    /\ pairEvent = [op |-> "load", target |-> "body", defaultPrevented |-> FALSE,
                    propagationStopped |-> FALSE, called |-> <<>>,
                    cancelledBy |-> {}]

PageIdle == NoImageLoad /\ NoScroll /\ EmptyForm /\ MenuClosed /\ NoTraps

\* Every utility outside the focus controllers in its initial state.
RestIdle ==
    /\ NoDocument /\ NoAnnouncement /\ NoContrast /\ NoMessage /\ NoSubmission
    /\ PageIdle

\* ------------------------------------------------------ construction

\* createFocusTrap(container, opts) while `focused` is the active element
createFocusTrap(opts, focused) ==
    [active |-> FALSE,
     returnFocus |-> IF opts.returnFocus = Null THEN focused ELSE opts.returnFocus,
     allowOutsideClick |-> opts.allowOutsideClick]

\* A container of arbitrary children, trapped; no roving group.
InitTrap ==
    \E t \in [Inside -> Templates] :
        /\ dom = [el \in Nodes |-> IF el \in Inside THEN t[el][1] ELSE Button]
        /\ tabindex = [el \in Nodes \cup {Body} |->
                           IF el \in Inside THEN t[el][2] ELSE "none"]
        /\ activeElement = Before
        /\ options \in [initialFocus : {Null, NumInside},
                        returnFocus : {Null, After},
                        allowOutsideClick : BOOLEAN]
        /\ options.initialFocus = Null \/ options.returnFocus = Null
        /\ state = createFocusTrap(options, activeElement)
        /\ elements = <<>>
        /\ orientation = "horizontal"
        /\ wrap = TRUE
        /\ currentIndex = 0
        /\ keydownListeners = {}

\* createRovingTabindex(elements, opts) over elements without tabindex
\* attributes: currentIndex 0, then updateTabindex()
createRovingTabindex(attrs) ==
    updateTabindex([tabindex |-> attrs, currentIndex |-> 0])

\* A container of buttons (a tab list), trapped and managed by a roving
\* tabindex controller created right after the trap.
InitRoving ==
    /\ dom = [el \in Nodes |-> Button]
    /\ elements = [i \in 1..NumInside |-> i]
    /\ orientation \in {"horizontal", "vertical"}
    /\ wrap \in BOOLEAN
    /\ currentIndex = 0
    /\ tabindex = createRovingTabindex([el \in Nodes \cup {Body} |-> "none"]).tabindex
    /\ keydownListeners = Managed
    /\ activeElement \in {Body, NumInside}
    /\ options = [initialFocus |-> Null, returnFocus |-> Null,
                  allowOutsideClick |-> FALSE]
    /\ state = createFocusTrap(options, activeElement)

Init ==
    /\ InitTrap \/ InitRoving
    /\ docListeners = {}
    /\ ev = Call("init", Null)
    /\ focusBeforeActivate = Null
    /\ RestIdle

Next ==
    \/ Activate
    \/ Release
    \/ KeyDown
    \/ MouseDown
    \/ ScriptFocus
    \/ MoveTo
    \/ Destroy

Spec == Init /\ [][Next]_vars

\* The same page with a skip link initialised by initializeSkipLinks.
NextSkipLink == Next \/ SkipLinkClick

SpecSkipLink == Init /\ [][NextSkipLink]_vars

TypeOK ==
    /\ activeElement \in Nodes \cup {Body}
    /\ tabindex \in [Nodes \cup {Body} -> {"none", "0", "-1"}]
    /\ state.active \in BOOLEAN
    /\ docListeners \subseteq TrapHandlers
    /\ currentIndex \in 0..NumInside

\* ------------------------------------------ getFocusableElements(root)

MaxChildren == 2

\* An element of the given tag with no attribute set, rendered and visible.
Plain(tag) ==
    [tag |-> tag, href |-> FALSE, type |-> "none", disabled |-> FALSE,
     tabindex |-> "none", controls |-> FALSE, contenteditable |-> "none",
     offsetWidth |-> 1, offsetHeight |-> 1, ariaHidden |-> "none",
     visibility |-> "visible", inContainer |-> TRUE]

\* One element per clause of FOCUSABLE_ELEMENTS, matching it and missing it.
BaseKinds ==
    { [Plain("a") EXCEPT !.href = TRUE],
      Plain("a"),
      [Plain("a") EXCEPT !.href = TRUE, !.tabindex = "-1"],
      [Plain("input") EXCEPT !.type = "text"],
      [Plain("input") EXCEPT !.type = "hidden", !.offsetWidth = 0,
                             !.offsetHeight = 0],
      Plain("button"),
      [Plain("button") EXCEPT !.tabindex = "-1"],
      Plain("div"),
      [Plain("div") EXCEPT !.tabindex = "0"],
      [Plain("div") EXCEPT !.tabindex = "1"],
      [Plain("div") EXCEPT !.tabindex = "-1"],
      [Plain("div") EXCEPT !.tabindex = "-2"],
      [Plain("video") EXCEPT !.controls = TRUE],
      Plain("video"),
      [Plain("div") EXCEPT !.contenteditable = "true"],
      [Plain("div") EXCEPT !.contenteditable = "false"] }

\* The element with one of the properties the filter reads changed, or moved
\* out of the queried container.
Variations(e) ==
    { [e EXCEPT !.disabled = TRUE],
      [e EXCEPT !.offsetWidth = 0],
      [e EXCEPT !.offsetHeight = 0],
      [e EXCEPT !.ariaHidden = "true"],
      [e EXCEPT !.ariaHidden = "false"],
      [e EXCEPT !.visibility = "hidden"],
      [e EXCEPT !.inContainer = FALSE] }

ElementKinds ==
    BaseKinds \cup Variations(Plain("button"))
              \cup Variations([Plain("div") EXCEPT !.tabindex = "0"])
              \cup Variations([Plain("a") EXCEPT !.href = TRUE])

\* The selector list FOCUSABLE_ELEMENTS, clause by clause (attribute
\* selectors compare the attribute's text).
FOCUSABLE_ELEMENTS(e) ==
    \/ e.tag \in {"a", "area"} /\ e.href
    \/ e.tag = "input" /\ ~e.disabled /\ e.type # "hidden"
    \/ e.tag \in {"select", "textarea", "button"} /\ ~e.disabled
    \/ e.tabindex # "none" /\ e.tabindex # "-1"
    \/ e.tag \in {"audio", "video"} /\ e.controls
    \/ e.contenteditable # "none" /\ e.contenteditable # "false"

\* container.querySelectorAll(FOCUSABLE_ELEMENTS): positions of the matching
\* descendants of the container, in document order
querySelectorAll(doc) ==
    SelectSeq([i \in 1..Len(doc) |-> i],
              LAMBDA i : doc[i].inContainer /\ FOCUSABLE_ELEMENTS(doc[i]))

\* the filter callback of getFocusableElements
filterCallback(e) ==
    /\ e.offsetWidth > 0
    /\ e.offsetHeight > 0
    /\ ~e.disabled
    /\ e.ariaHidden # "true"
    /\ e.visibility # "hidden"

getFocusableElementsIn(doc) ==
    SelectSeq(querySelectorAll(doc), LAMBDA i : filterCallback(doc[i]))

\* The focus controllers at rest while another utility is exercised.
FocusIdle ==
    /\ dom = [el \in Nodes |-> Button]
    /\ tabindex = [el \in Nodes \cup {Body} |-> "none"]
    /\ activeElement = Body
    /\ options = [initialFocus |-> Null, returnFocus |-> Null,
                  allowOutsideClick |-> FALSE]
    /\ state = createFocusTrap(options, activeElement)
    /\ docListeners = {}
    /\ elements = <<>>
    /\ orientation = "horizontal"
    /\ wrap = TRUE
    /\ currentIndex = 0
    /\ keydownListeners = {}
    /\ ev = Call("init", Null)
    /\ focusBeforeActivate = Null

\* The page appends an element to the document.
AppendChild ==
    \E e \in ElementKinds :
        /\ Len(children) < MaxChildren
        /\ children' = Append(children, e)
        /\ queried' = NotQueried
        /\ UNCHANGED <<focusVars, announceVars, contrastVars, messageVars, submitVars,
                       pageVars>>

GetFocusableElements ==
    /\ queried' = [done |-> TRUE, result |-> getFocusableElementsIn(children)]
    /\ children' = children
    /\ UNCHANGED <<focusVars, announceVars, contrastVars, messageVars, submitVars,
                       pageVars>>

InitQuery == FocusIdle /\ RestIdle

NextQuery == AppendChild \/ GetFocusableElements

SpecQuery == InitQuery /\ [][NextQuery]_vars

\* ------------------------------------------------------ announce

MaxAnnouncements == 2

\* The default of options.delay, in ms.
DefaultDelay == 100

\* The delay of the inner setTimeout of processQueue, in ms.
SettleInterval == 1000

\* The text of the k-th announce call: every call announces another text.
Messages == <<"A", "B", "C", "D", "E">>

Politeness == {"polite", "assertive"}

Delays == {0, DefaultDelay, SettleInterval \div 2}

\* The announcer state handed through announce and the timer callbacks.
CurAnnouncer ==
    [announcementQueue |-> announcementQueue, liveRegion |-> liveRegion,
     appendedRegions |-> appendedRegions,
     timers |-> timers, written |-> written, shownFor |-> shownFor]

CommitAnnouncer(a) ==
    /\ announcementQueue' = a.announcementQueue
    /\ liveRegion' = a.liveRegion
    /\ appendedRegions' = a.appendedRegions
    /\ timers' = a.timers
    /\ written' = a.written
    /\ shownFor' = a.shownFor

setTimeout(a, callback, announcement, delay) ==
    [a EXCEPT !.timers = Append(@, [left |-> delay, callback |-> callback,
                                    announcement |-> announcement])]

\* initializeLiveRegion without its early return
initializeLiveRegionAlways(a) ==
    [a EXCEPT !.liveRegion =
                 [exists |-> TRUE, textContent |-> "", ariaLive |-> "polite"],
              !.appendedRegions = @ + 1]

initializeLiveRegion(a) ==
    IF a.liveRegion.exists THEN a
    ELSE [a EXCEPT !.liveRegion =
                      [exists |-> TRUE, textContent |-> "", ariaLive |-> "polite"],
                   !.appendedRegions = @ + 1]

\* processQueue: take the head of the queue and schedule its write
processQueue(a) ==
    IF Len(a.announcementQueue) = 0 \/ ~a.liveRegion.exists THEN a
    ELSE LET announcement == Head(a.announcementQueue)
             a1 == [a EXCEPT !.announcementQueue = Tail(@),
                             !.liveRegion.ariaLive = announcement.politeness]
         IN  setTimeout(a1, "write", announcement, announcement.delay)

\* the clear branch of announce
clearPrevious(a, clear) ==
    IF clear
    THEN [a EXCEPT !.announcementQueue = <<>>,
                   !.liveRegion.textContent =
                       IF a.liveRegion.exists THEN "" ELSE @]
    ELSE a

\* announce(message, {politeness, delay, clear}) for a non-empty string
announce(a0, message, politeness, delay, clear) ==
    LET a1 == clearPrevious(initializeLiveRegion(a0), clear)
        a2 == [a1 EXCEPT !.announcementQueue =
                  Append(@, [message |-> message, politeness |-> politeness,
                             delay |-> delay])]
    IN  IF Len(a2.announcementQueue) = 1 THEN processQueue(a2) ELSE a2

\* the outer setTimeout callback of processQueue
writeMessage(a, announcement) ==
    IF a.liveRegion.exists
    THEN setTimeout([a EXCEPT !.liveRegion.textContent = announcement.message,
                              !.written = Append(@, announcement.message),
                              !.shownFor = 0],
                    "settle", announcement, SettleInterval)
    ELSE a

\* the inner setTimeout callback of processQueue
settle(a) ==
    processQueue(
        IF a.liveRegion.exists /\ Len(a.announcementQueue) = 0
        THEN [a EXCEPT !.liveRegion.textContent = ""]
        ELSE a)

\* The timer the event loop runs next: the oldest of those that are due.
DueTimers == {i \in 1..Len(timers) : timers[i].left = 0}

NextDue == CHOOSE i \in DueTimers : \A j \in DueTimers : i <= j

WithoutTimer(a, i) ==
    [a EXCEPT !.timers = SubSeq(@, 1, i - 1) \o SubSeq(@, i + 1, Len(@))]

runTimer(a, timer) ==
    IF timer.callback = "write" THEN writeMessage(a, timer.announcement)
    ELSE settle(a)

\* The time to the next pending timer (none pending: any time may pass).
MinLeft ==
    IF timers = <<>> THEN DefaultDelay
    ELSE LET i == CHOOSE i \in 1..Len(timers) :
                      \A j \in 1..Len(timers) : timers[i].left <= timers[j].left
         IN  timers[i].left

Min(x, y) == IF x <= y THEN x ELSE y

\* A valid announce call: the k-th call announces Messages[k].
Announce ==
    \E politeness \in Politeness, delay \in Delays, clear \in BOOLEAN :
        /\ Len(announced) < MaxAnnouncements
        /\ LET message == Messages[Len(announced) + 1]
           IN  /\ CommitAnnouncer(announce(CurAnnouncer, message, politeness,
                                           delay, clear))
               /\ announced' = Append(announced,
                     [message |-> message, politeness |-> politeness,
                      delay |-> delay, clear |-> clear,
                      immediately |-> ~elapsed,
                      writtenBefore |-> Len(written)])
        /\ elapsed' = FALSE
        /\ UNCHANGED <<focusVars, queryVars, contrastVars, messageVars, submitVars,
                       pageVars>>

\* announce with a message that is empty or not a string: logged, no effect.
AnnounceInvalid ==
    /\ Len(announced) < MaxAnnouncements
    /\ UNCHANGED vars

\* The event loop runs the next due timer callback.
FireTimer ==
    /\ DueTimers # {}
    /\ CommitAnnouncer(runTimer(WithoutTimer(CurAnnouncer, NextDue),
                                timers[NextDue]))
    /\ UNCHANGED <<announced, elapsed, focusVars, queryVars, contrastVars,
                   messageVars, submitVars, pageVars>>

\* Time passes: by the default delay or up to the next timer, never past one.
Advance ==
    \E d \in {DefaultDelay, MinLeft} :
        /\ d > 0 /\ d <= MinLeft
        /\ timers' = [i \in 1..Len(timers) |-> [timers[i] EXCEPT !.left = @ - d]]
        /\ shownFor' = Min(shownFor + d, SettleInterval)
        /\ elapsed' = TRUE
        /\ UNCHANGED <<announcementQueue, liveRegion, appendedRegions,
                       announced, written, focusVars, queryVars, contrastVars, messageVars,
                       submitVars, pageVars>>

InitAnnounce == FocusIdle /\ RestIdle

NextAnnounce == Announce \/ AnnounceInvalid \/ FireTimer \/ Advance

SpecAnnounce == InitAnnounce /\ [][NextAnnounce]_vars

\* ------------------------------------------------- getContrastRatio

MaxColorLen == 6

\* Characters of a colour string: the prefix, two hex digits, and a
\* character that is no hex digit.
ColorChars == {"#", "0", "F", "z"}

White == Str(<<"#", "F", "F", "F", "F", "F", "F">>)

Black == Str(<<"0", "0", "0", "0", "0", "0">>)

Invalid == Str(<<"z", "z", "z", "z", "z", "z", "z">>)

OtherColors == {White, Black, Invalid, NullArg}

IsHexDigit(ch) == ch \in {"0", "F"}

HexDigit(ch) == IF ch = "0" THEN 0 ELSE 15

\* color.replace('#', ''): the first '#' removed
replaceHash(chars) ==
    IF \E i \in 1..Len(chars) : chars[i] = "#"
    THEN LET i == CHOOSE i \in 1..Len(chars) :
                      chars[i] = "#" /\ \A j \in 1..(i - 1) : chars[j] # "#"
         IN  SubSeq(chars, 1, i - 1) \o SubSeq(chars, i + 1, Len(chars))
    ELSE chars

\* hex.substr(start, 2), start counted from 0
substr2(chars, start) == SubSeq(chars, start + 1, Min(start + 2, Len(chars)))

\* parseInt(text, 16) of at most two characters: the longest prefix of hex
\* digits, NaN when there is none
parseInt16(text) ==
    IF Len(text) = 0 \/ ~IsHexDigit(text[1]) THEN NaN
    ELSE IF Len(text) = 2 /\ IsHexDigit(text[2])
    THEN Number(16 * HexDigit(text[1]) + HexDigit(text[2]))
    ELSE Number(HexDigit(text[1]))

\* parseColor: throws on an argument without a replace method
parseColor(color) ==
    IF ~color.isString
    THEN [threw |-> TRUE, r |-> NaN, g |-> NaN, b |-> NaN]
    ELSE LET hex == replaceHash(color.chars)
         IN  [threw |-> FALSE,
              r |-> parseInt16(substr2(hex, 0)),
              g |-> parseInt16(substr2(hex, 2)),
              b |-> parseInt16(substr2(hex, 4))]

\* The map callback of getRelativeLuminance, in thousandths, for the channel
\* values two of the digits 0 and F can spell.
Linearize(c) ==
    IF c.nan THEN NaN
    ELSE Number(CASE c.value = 0 -> 0
                  [] c.value = 15 -> 5
                  [] c.value = 240 -> 871
                  [] c.value = 255 -> 1000)

\* getRelativeLuminance, in thousandths
getRelativeLuminance(r, g, b) ==
    LET rs == Linearize(r)
        gs == Linearize(g)
        bs == Linearize(b)
    IN  IF rs.nan \/ gs.nan \/ bs.nan THEN NaN
        ELSE Number((2126 * rs.value + 7152 * gs.value + 722 * bs.value)
                        \div 10000)

\* (lighter + 0.05) / (darker + 0.05), in hundredths; Math.max and Math.min
\* return NaN when an argument is NaN
ratioOf(l1, l2) ==
    IF l1.nan \/ l2.nan THEN NaN
    ELSE LET lighter == IF l1.value >= l2.value THEN l1.value ELSE l2.value
             darker == IF l1.value >= l2.value THEN l2.value ELSE l1.value
         IN  Number(((lighter + 50) * 100) \div (darker + 50))

getContrastRatio(color1, color2) ==
    LET c1 == parseColor(color1)
        c2 == parseColor(color2)
    IN  IF c1.threw \/ c2.threw THEN Number(0)
        ELSE ratioOf(getRelativeLuminance(c1.r, c1.g, c1.b),
                     getRelativeLuminance(c2.r, c2.g, c2.b))

\* One more character of the colour string.
TypeChar ==
    \E ch \in ColorChars :
        /\ Len(typed) < MaxColorLen
        /\ typed' = Append(typed, ch)
        /\ contrast' = NotComputed
        /\ UNCHANGED <<focusVars, queryVars, announceVars, messageVars, submitVars,
                       pageVars>>

\* getContrastRatio with the typed colour as one argument.
GetContrastRatio ==
    \E other \in OtherColors, typedFirst \in BOOLEAN :
        LET color1 == IF typedFirst THEN Str(typed) ELSE other
            color2 == IF typedFirst THEN other ELSE Str(typed)
        IN  /\ contrast' = [done |-> TRUE, color1 |-> color1, color2 |-> color2,
                            ratio |-> getContrastRatio(color1, color2)]
            /\ typed' = typed
            /\ UNCHANGED <<focusVars, queryVars, announceVars, messageVars, submitVars,
                       pageVars>>

InitContrast == FocusIdle /\ RestIdle

NextContrast == TypeChar \/ GetContrastRatio

SpecContrast == InitContrast /\ [][NextContrast]_vars

\* ------------------------------------------- message field validators

MaxRuns == 3

\* validation.js, contact-form.js and main.js each keep their own limits.
VALIDATION_CONSTRAINTS == [message |-> [minLength |-> 10, maxLength |-> 1000]]

VALIDATION_RULES ==
    [message |-> [minLength |-> 10, maxLength |-> 1000,
                  errorMessages |->
                     [required |-> "Please enter a message",
                      minLength |-> "Message must be at least 10 characters",
                      maxLength |-> "Message must not exceed 1000 characters"]]]

validationRules ==
    [message |-> [required |-> TRUE, minLength |-> 10, maxLength |-> 1000,
                  message |-> "Please enter a message (10-1000 characters)"]]

\* Kinds of character: a space, a printable character, a control character
\* that sanitizeInput removes and trim keeps (\x00-\x08, \x0E-\x1F, \x7F),
\* and a control character that is also white space (\x0B, \x0C).
CharKinds == {" ", "a", "ctl", "vt"}

\* WhiteSpace and LineTerminator characters, which String.prototype.trim strips
WhiteSpace == {" ", "vt"}

\* The class [\x00-\x08\x0B\x0C\x0E-\x1F\x7F] of sanitizeInput
ControlCharacters == {"ctl", "vt"}

RunLengths == {1, 9, 10, 1000, 1001}

RECURSIVE trimStart(_)
trimStart(runs) ==
    IF runs # <<>> /\ Head(runs).ch \in WhiteSpace
    THEN trimStart(Tail(runs))
    ELSE runs

RECURSIVE trimEnd(_)
trimEnd(runs) ==
    IF runs # <<>> /\ Last(runs).ch \in WhiteSpace
    THEN trimEnd(SubSeq(runs, 1, Len(runs) - 1))
    ELSE runs

\* String.prototype.trim
trim(runs) == trimEnd(trimStart(runs))

\* String.prototype.length
RECURSIVE length(_)
length(runs) == IF runs = <<>> THEN 0 ELSE Head(runs).n + length(Tail(runs))

\* sanitizeInput of a string: trim, then remove the control characters
sanitizeInput(input) ==
    SelectSeq(trim(input), LAMBDA run : run.ch \notin ControlCharacters)

Result(isValid, error) == [isValid |-> isValid, error |-> error]

\* validation.js
validateMessage(value) ==
    LET sanitized == sanitizeInput(value)
    IN  IF length(sanitized) = 0 THEN Result(FALSE, "Message is required")
        ELSE IF length(sanitized) < VALIDATION_CONSTRAINTS.message.minLength
        THEN Result(FALSE, "Message must be at least 10 characters")
        ELSE IF length(sanitized) > VALIDATION_CONSTRAINTS.message.maxLength
        THEN Result(FALSE, "Message must not exceed 1000 characters")
        ELSE Result(TRUE, "null")

\* contact-form.js validateField('message', …) with an inclusive minimum
validateFieldInclusiveMin(value, isRequired) ==
    LET rules == VALIDATION_RULES.message
        trimmedValue == trim(value)
    IN  IF isRequired /\ length(trimmedValue) = 0 THEN rules.errorMessages.required
        ELSE IF ~isRequired /\ length(trimmedValue) = 0 THEN "null"
        ELSE IF length(trimmedValue) <= rules.minLength
        THEN rules.errorMessages.minLength
        ELSE IF length(trimmedValue) > rules.maxLength
        THEN rules.errorMessages.maxLength
        ELSE "null"

\* contact-form.js validateField('message', value, isRequired): the error
\* message, or null
validateFieldOfContactForm(value, isRequired) ==
    LET rules == VALIDATION_RULES.message
        trimmedValue == trim(value)
    IN  IF isRequired /\ length(trimmedValue) = 0 THEN rules.errorMessages.required
        ELSE IF ~isRequired /\ length(trimmedValue) = 0 THEN "null"
        ELSE IF length(trimmedValue) < rules.minLength
        THEN rules.errorMessages.minLength
        ELSE IF length(trimmedValue) > rules.maxLength
        THEN rules.errorMessages.maxLength
        ELSE "null"

\* main.js validateField('message', value)
validateFieldOfMain(value) ==
    LET rules == validationRules.message
        empty == length(value) = 0 \/ length(trim(value)) = 0
        trimmedValue == trim(value)
    IN  IF rules.required /\ empty THEN Result(FALSE, rules.message)
        ELSE IF ~rules.required /\ empty THEN Result(TRUE, "")
        ELSE IF length(trimmedValue) < rules.minLength
        THEN Result(FALSE, rules.message)
        ELSE IF length(trimmedValue) > rules.maxLength
        THEN Result(FALSE, rules.message)
        ELSE Result(TRUE, "")

\* The user types (or pastes) a run of equal characters.
TypeRun ==
    \E ch \in CharKinds, n \in RunLengths :
        /\ Len(fieldValue) < MaxRuns
        /\ fieldValue' = Append(fieldValue, [ch |-> ch, n |-> n])
        /\ validated' = NotValidated
        /\ UNCHANGED <<focusVars, queryVars, announceVars, contrastVars, submitVars,
                       pageVars>>

ValidateMessage ==
    /\ LET result == validateMessage(fieldValue)
       IN  validated' = [by |-> "validation.js", isRequired |-> TRUE,
                         isValid |-> result.isValid, error |-> result.error]
    /\ fieldValue' = fieldValue
    /\ UNCHANGED <<focusVars, queryVars, announceVars, contrastVars, submitVars,
                       pageVars>>

\* validateFormField of contact-form.js: isRequired is the field's attribute.
ValidateFieldOfContactForm ==
    \E isRequired \in BOOLEAN :
        /\ LET errorMessage == validateFieldOfContactForm(fieldValue, isRequired)
           IN  validated' = [by |-> "contact-form.js", isRequired |-> isRequired,
                             isValid |-> (errorMessage = "null"),
                             error |-> errorMessage]
        /\ fieldValue' = fieldValue
        /\ UNCHANGED <<focusVars, queryVars, announceVars, contrastVars, submitVars,
                       pageVars>>

ValidateFieldOfMain ==
    /\ LET validation == validateFieldOfMain(fieldValue)
       IN  validated' = [by |-> "main.js", isRequired |-> TRUE,
                         isValid |-> validation.isValid,
                         error |-> validation.error]
    /\ fieldValue' = fieldValue
    /\ UNCHANGED <<focusVars, queryVars, announceVars, contrastVars, submitVars,
                       pageVars>>

InitMessage == FocusIdle /\ RestIdle

NextMessage ==
    \/ TypeRun
    \/ ValidateMessage
    \/ ValidateFieldOfContactForm
    \/ ValidateFieldOfMain

SpecMessage == InitMessage /\ [][NextMessage]_vars

\* ------------------------------------------------ contact form submit

MaxSubmits == 2

\* contact-form.js: the wait that stands for the API call, in ms.
SimulatedCallDelay == 1500

\* contact-form.js: the delay of the reset after a success, in ms.
ResetDelay == 5000

\* main.js: the delay after which a success message is hidden, in ms.
AutoHideDelay == 5000

\* The submission state handed through the handlers.
CurSubmit ==
    [formStatus |-> formStatus, formSubmitting |-> formSubmitting,
     isSubmitting |-> isSubmitting, submitDisabled |-> submitDisabled,
     submissions |-> submissions, submitTimers |-> submitTimers,
     statusLog |-> statusLog, contactFormListener |-> contactFormListener]

CommitSubmit(s) ==
    /\ formStatus' = s.formStatus
    /\ formSubmitting' = s.formSubmitting
    /\ isSubmitting' = s.isSubmitting
    /\ submitDisabled' = s.submitDisabled
    /\ submissions' = s.submissions
    /\ submitTimers' = s.submitTimers
    /\ statusLog' = s.statusLog
    /\ contactFormListener' = s.contactFormListener

setTimeoutOfSubmit(s, callback, k, delay) ==
    [s EXCEPT !.submitTimers =
        Append(@, [left |-> delay, callback |-> callback, submission |-> k])]

\* A status message shown for submit event k.
Logged(s, k, text, type) ==
    [s EXCEPT !.statusLog =
        Append(@, [submission |-> k, message |-> text, type |-> type])]

\* main.js showFormStatus
showFormStatusOfMain(s, k, text, type) ==
    LET s1 == Logged([s EXCEPT !.formStatus =
                        [textContent |-> text,
                         className |-> IF type = "success"
                                       THEN "alert alert-success"
                                       ELSE "alert alert-error",
                         display |-> "block"]],
                     k, text, type)
    IN  IF type = "success"
        THEN setTimeoutOfSubmit(s1, "hideStatus", k, AutoHideDelay)
        ELSE s1

\* contact-form.js showFormStatus
showFormStatusOfContactForm(s, k, text, type) ==
    Logged([s EXCEPT !.formStatus.textContent = text,
                     !.formStatus.className = type],
           k, text, type)

\* contact-form.js clearFormStatus
clearFormStatus(s) ==
    [s EXCEPT !.formStatus.textContent = "",
              !.formStatus.className = "sr-only"]

\* contact-form.js setSubmittingState
setSubmittingState(s, submitting) ==
    [s EXCEPT !.isSubmitting = submitting, !.submitDisabled = submitting]

\* main.js handleFormSubmit without its formSubmitting guard
handleFormSubmitOfMainUnguarded(s, k, isValid) ==
    IF ~isValid
    THEN showFormStatusOfMain(s, k, "Please correct the errors in the form.",
                              "error")
    ELSE [s EXCEPT !.formSubmitting = TRUE,
                   !.submitDisabled = TRUE,
                   !.submissions[k].fetch = "pending"]

\* main.js handleFormSubmit up to its await: the POST is sent
handleFormSubmitOfMain(s, k, isValid) ==
    IF s.formSubmitting THEN s
    ELSE IF ~isValid
    THEN showFormStatusOfMain(s, k, "Please correct the errors in the form.",
                              "error")
    ELSE [s EXCEPT !.formSubmitting = TRUE,
                   !.submitDisabled = TRUE,
                   !.submissions[k].fetch = "pending"]

\* main.js handleFormSubmit after its await, with the outcome of the POST
fetchSettled(s, k, outcome) ==
    LET s1 == [s EXCEPT !.submissions[k].fetch = outcome]
        s2 == IF outcome = "ok"
              THEN showFormStatusOfMain(s1, k,
                      "Thank you for your message! We will contact you soon.",
                      "success")
              ELSE showFormStatusOfMain(s1, k,
                      "Sorry, there was an error submitting your message. Please try again later.",
                      "error")
    IN  [s2 EXCEPT !.formSubmitting = FALSE, !.submitDisabled = FALSE]

\* contact-form.js handleFormSubmit up to its await
handleFormSubmitOfContactForm(s, k, isValid) ==
    LET s1 == clearFormStatus(s)
    IN  IF ~isValid
        THEN showFormStatusOfContactForm(s1, k,
                "Please correct the errors in the form before submitting.",
                "error")
        ELSE setTimeoutOfSubmit(setSubmittingState(s1, TRUE), "resume", k,
                                SimulatedCallDelay)

\* contact-form.js handleFormSubmit after its await
resumeOfContactForm(s, k) ==
    LET s1 == showFormStatusOfContactForm(s, k,
                 "Thank you for your message! We will get back to you within 24 hours.",
                 "success")
    IN  setSubmittingState(setTimeoutOfSubmit(s1, "reset", k, ResetDelay), FALSE)

\* contact-form.js cleanupContactForm: the submit listener is removed and
\* formState reset; a handler already past its await still resumes
cleanupContactForm(s) ==
    [s EXCEPT !.contactFormListener = FALSE, !.isSubmitting = FALSE]

\* contact-form.js initContactForm: handleFormSubmit is the form's submit
\* listener again; a listener still attached is not added twice
initContactForm(s) == [s EXCEPT !.contactFormListener = TRUE]

\* The timer callbacks: resume of contact-form.js, its reset after a
\* success (resetForm, clearFormStatus), and the auto-hide of main.js.
runSubmitTimer(s, timer) ==
    IF timer.callback = "resume" THEN resumeOfContactForm(s, timer.submission)
    ELSE IF timer.callback = "reset" THEN clearFormStatus(s)
    ELSE [s EXCEPT !.formStatus.display = "none"]

DueSubmitTimers == {i \in 1..Len(submitTimers) : submitTimers[i].left = 0}

NextDueSubmitTimer ==
    CHOOSE i \in DueSubmitTimers : \A j \in DueSubmitTimers : i <= j

WithoutSubmitTimer(s, i) ==
    [s EXCEPT !.submitTimers = SubSeq(@, 1, i - 1) \o SubSeq(@, i + 1, Len(@))]

SubmitMinLeft ==
    LET i == CHOOSE i \in 1..Len(submitTimers) :
                 \A j \in 1..Len(submitTimers) :
                     submitTimers[i].left <= submitTimers[j].left
    IN  submitTimers[i].left

\* The user submits the form: the submit event runs main.js's listener,
\* registered first, and then contact-form.js's while it is attached, each
\* up to its await.
Submit ==
    \E validForMain \in BOOLEAN, validForContactForm \in BOOLEAN :
        /\ ~submitDisabled
        /\ Len(submissions) < MaxSubmits
        /\ LET k == Len(submissions) + 1
               s0 == [CurSubmit EXCEPT
                         !.submissions =
                             Append(@, [fetch |-> "none",
                                        accepted |-> validForContactForm])]
               s1 == handleFormSubmitOfMain(s0, k, validForMain)
           IN  CommitSubmit(IF contactFormListener
                            THEN handleFormSubmitOfContactForm(
                                     s1, k, validForContactForm)
                            ELSE s1)
        /\ UNCHANGED <<focusVars, queryVars, announceVars, contrastVars,
                       messageVars, pageVars>>

\* Another script calls the exported cleanupContactForm().
CleanupContactForm ==
    /\ CommitSubmit(cleanupContactForm(CurSubmit))
    /\ UNCHANGED <<focusVars, queryVars, announceVars, contrastVars,
                   messageVars, pageVars>>

\* Another script calls the exported initContactForm().
InitContactForm ==
    /\ CommitSubmit(initContactForm(CurSubmit))
    /\ UNCHANGED <<focusVars, queryVars, announceVars, contrastVars,
                   messageVars, pageVars>>

\* The POST of a submission settles: a 2xx response, another status, or a
\* network rejection.
FetchSettles ==
    \E k \in 1..Len(submissions), outcome \in {"ok", "non2xx", "rejected"} :
        /\ submissions[k].fetch = "pending"
        /\ CommitSubmit(fetchSettled(CurSubmit, k, outcome))
        /\ UNCHANGED <<focusVars, queryVars, announceVars, contrastVars,
                       messageVars, pageVars>>

FireSubmitTimer ==
    /\ DueSubmitTimers # {}
    /\ CommitSubmit(runSubmitTimer(
                        WithoutSubmitTimer(CurSubmit, NextDueSubmitTimer),
                        submitTimers[NextDueSubmitTimer]))
    /\ UNCHANGED <<focusVars, queryVars, announceVars, contrastVars,
                   messageVars, pageVars>>

\* Time passes, up to the next timer or by the length of the simulated call.
AdvanceSubmit ==
    /\ submitTimers # <<>>
    /\ \E d \in {SimulatedCallDelay, SubmitMinLeft} :
        /\ d > 0 /\ d <= SubmitMinLeft
        /\ submitTimers' = [i \in 1..Len(submitTimers) |->
                               [submitTimers[i] EXCEPT !.left = @ - d]]
        /\ UNCHANGED <<formStatus, formSubmitting, isSubmitting,
                       submitDisabled, submissions, statusLog,
                       contactFormListener>>
        /\ UNCHANGED <<focusVars, queryVars, announceVars, contrastVars,
                       messageVars, pageVars>>

InitSubmit == FocusIdle /\ RestIdle

NextSubmit ==
    \/ Submit \/ FetchSettles \/ FireSubmitTimer \/ AdvanceSubmit
    \/ CleanupContactForm \/ InitContactForm

SpecSubmit == InitSubmit /\ [][NextSubmit]_vars

\* ------------------------------------------------------ image loading

MaxRetryAttempts == 3

MaxLoads == 2

\* DEFAULT_CONFIG.retryDelay, in ms.
DefaultRetryDelay == 1000

RetryDelays == {DefaultRetryDelay, DefaultRetryDelay \div 2}

RECURSIVE pow(_, _)
\* Math.pow(base, exponent) for a natural exponent
pow(base, exponent) ==
    IF exponent = 0 THEN 1 ELSE base * pow(base, exponent - 1)

\* The image-loading state handed through the functions.
CurImages ==
    [imageSrc |-> imageSrc, loadingStates |-> loadingStates,
     imageLoad |-> imageLoad, imageTimers |-> imageTimers]

CommitImages(g) ==
    /\ imageSrc' = g.imageSrc
    /\ loadingStates' = g.loadingStates
    /\ imageLoad' = g.imageLoad
    /\ imageTimers' = g.imageTimers

\* loadImageWithRetry(src, retryCount, ...): a new Image and img.src = src
startAttempt(load, retryCount) ==
    [load EXCEPT !.phase = "loading", !.retryCount = retryCount,
                 !.attempts = @ + 1]

\* loadImageWithRetry(src, 0, maxRetries, retryDelay)
loadImageWithRetry(load, maxRetries, retryDelay) ==
    startAttempt([load EXCEPT !.maxRetries = maxRetries,
                              !.retryDelay = retryDelay,
                              !.attempts = 0, !.waits = <<>>,
                              !.started = @ + 1], 0)

\* handleLoad: the promise resolves
handleLoad(load) == [load EXCEPT !.phase = "resolved"]

\* handleError with the comparison retryCount <= maxRetries
handleErrorInclusive(load) ==
    IF load.retryCount <= load.maxRetries
    THEN [load EXCEPT !.phase = "waiting",
                      !.waits = Append(@, load.retryDelay * pow(2, load.retryCount))]
    ELSE [load EXCEPT !.phase = "rejected"]

\* handleError: wait retryDelay * 2^retryCount and retry, or reject
handleError(load) ==
    IF load.retryCount < load.maxRetries
    THEN [load EXCEPT !.phase = "waiting",
                      !.waits = Append(@, load.retryDelay * pow(2, load.retryCount))]
    ELSE [load EXCEPT !.phase = "rejected"]

\* delay(ms) in handleError of the load of el
delay(g, el, ms) ==
    [g EXCEPT !.imageTimers = Append(@, [left |-> ms, element |-> el])]

\* loadImage after its await: applyLoadedImage on success, handleImageError
\* on failure, and loadingStates.delete(element) in the finally block
settleLoad(g, el) ==
    [g EXCEPT !.imageSrc[el] = IF g.imageLoad[el].phase = "resolved"
                               THEN FALSE ELSE @,
              !.loadingStates = @ \ {el}]

\* loadImage(element, config)
loadImage(g, el, config) ==
    IF el \in g.loadingStates THEN g
    ELSE IF ~g.imageSrc[el]
    THEN \* the async function throws before its first await: catch and
         \* finally run, and then loadingStates.set(element, ...)
         LET g1 == [g EXCEPT !.imageLoad[el] =
                        [NotLoaded EXCEPT !.phase = "rejected",
                                          !.started = g.imageLoad[el].started + 1]]
         IN  [settleLoad(g1, el) EXCEPT !.loadingStates = @ \cup {el}]
    ELSE [g EXCEPT !.imageLoad[el] =
                       loadImageWithRetry(@, config.retryAttempts,
                                          config.retryDelay),
                   !.loadingStates = @ \cup {el}]

\* the load event of the Image of the attempt in flight
imageLoaded(g, el) ==
    settleLoad([g EXCEPT !.imageLoad[el] = handleLoad(@)], el)

\* the error event of the Image of the attempt in flight
imageFailed(g, el) ==
    LET load == handleError(g.imageLoad[el])
        g1 == [g EXCEPT !.imageLoad[el] = load]
    IN  IF load.phase = "waiting"
        THEN delay(g1, el, load.waits[Len(load.waits)])
        ELSE settleLoad(g1, el)

\* handleError after its delay: the next attempt
retry(g, el) ==
    [g EXCEPT !.imageLoad[el] = startAttempt(@, @.retryCount + 1)]

DueImageTimers == {i \in 1..Len(imageTimers) : imageTimers[i].left = 0}

NextDueImageTimer ==
    CHOOSE i \in DueImageTimers : \A j \in DueImageTimers : i <= j

WithoutImageTimer(g, i) ==
    [g EXCEPT !.imageTimers = SubSeq(@, 1, i - 1) \o SubSeq(@, i + 1, Len(@))]

ImageMinLeft ==
    LET i == CHOOSE i \in 1..Len(imageTimers) :
                 \A j \in 1..Len(imageTimers) :
                     imageTimers[i].left <= imageTimers[j].left
    IN  imageTimers[i].left

\* loadImage(el, config) is called: by the observer callback, the scroll
\* fallback or loadImageNow.
LoadImage(el) ==
    \E retryAttempts \in 0..MaxRetryAttempts, retryDelay \in RetryDelays :
        /\ loadCalls[el] < MaxLoads
        /\ loadCalls' = [loadCalls EXCEPT ![el] = @ + 1]
        /\ CommitImages(loadImage(CurImages, el,
                                  [retryAttempts |-> retryAttempts,
                                   retryDelay |-> retryDelay]))
        /\ UNCHANGED <<focusVars, utilVars, scrollVars, formVars, navVars, pairVars>>

ImageLoads(el) ==
    /\ imageLoad[el].phase = "loading"
    /\ CommitImages(imageLoaded(CurImages, el))
    /\ UNCHANGED <<loadCalls, focusVars, utilVars, scrollVars,
                   formVars, navVars, pairVars>>

ImageErrors(el) ==
    /\ imageLoad[el].phase = "loading"
    /\ CommitImages(imageFailed(CurImages, el))
    /\ UNCHANGED <<loadCalls, focusVars, utilVars, scrollVars,
                   formVars, navVars, pairVars>>

FireImageTimer ==
    /\ DueImageTimers # {}
    /\ CommitImages(retry(WithoutImageTimer(CurImages, NextDueImageTimer),
                          imageTimers[NextDueImageTimer].element))
    /\ UNCHANGED <<loadCalls, focusVars, utilVars, scrollVars,
                   formVars, navVars, pairVars>>

\* Time passes up to the next pending timer.
AdvanceImage ==
    /\ imageTimers # <<>>
    /\ ImageMinLeft > 0
    /\ imageTimers' = [i \in 1..Len(imageTimers) |->
                          [imageTimers[i] EXCEPT !.left = @ - ImageMinLeft]]
    /\ UNCHANGED <<imageSrc, loadingStates, imageLoad, loadCalls, focusVars,
                   utilVars, scrollVars, formVars, navVars, pairVars>>

InitImage == FocusIdle /\ RestIdle

NextImage ==
    \/ \E el \in ImageElements : LoadImage(el) \/ ImageLoads(el) \/ ImageErrors(el)
    \/ FireImageTimer
    \/ AdvanceImage

SpecImage == InitImage /\ [][NextImage]_vars

\* Every attempt fires load or error and every timer fires.
FairImage ==
    /\ \A el \in ImageElements : WF_vars(ImageLoads(el) \/ ImageErrors(el))
    /\ WF_vars(FireImageTimer)
    /\ WF_vars(AdvanceImage)

SpecImageFair == SpecImage /\ FairImage

\* ----------------------------------------------------- smooth scroll

MaxScrolls == 2

\* Target positions, in px, and durations, in animation frames.
ScrollTargets == {0, 100}

ScrollDurations == {0, 1, 2}

CurScroll ==
    [scrollState |-> scrollState, frameCallbacks |-> frameCallbacks,
     frameIds |-> frameIds, scrolls |-> scrolls, pageYOffset |-> pageYOffset]

CommitScroll(w) ==
    /\ scrollState' = w.scrollState
    /\ frameCallbacks' = w.frameCallbacks
    /\ frameIds' = w.frameIds
    /\ scrolls' = w.scrolls
    /\ pageYOffset' = w.pageYOffset

\* scrollState.animationFrameId = requestAnimationFrame(animate) of scroll k
requestAnimationFrame(w, k) ==
    [w EXCEPT !.frameIds = @ + 1,
              !.frameCallbacks = @ \cup {[id |-> w.frameIds + 1, scroll |-> k]},
              !.scrollState.animationFrameId = w.frameIds + 1]

cancelAnimationFrame(w, id) ==
    [w EXCEPT !.frameCallbacks = {cb \in @ : cb.id # id}]

\* smoothScrollToPosition(targetPosition, duration, 'linear')
smoothScrollToPosition(w, targetPosition, duration) ==
    LET w1 == IF w.scrollState.animationFrameId # 0
              THEN cancelAnimationFrame(w, w.scrollState.animationFrameId)
              ELSE w
        w2 == [w1 EXCEPT !.scrolls =
                  Append(@, [targetPosition |-> targetPosition,
                             duration |-> duration,
                             startPosition |-> w.pageYOffset,
                             elapsed |-> 0,
                             promise |-> "pending"]),
                         !.scrollState.isScrolling = TRUE]
    IN  requestAnimationFrame(w2, Len(w2.scrolls))

\* animate(currentTime) of scroll k, one frame after its last run
animate(w, k) ==
    LET scroll == w.scrolls[k]
        frames == scroll.elapsed + 1
        done == frames >= scroll.duration
        distance == scroll.targetPosition - scroll.startPosition
        currentPosition ==
            IF done THEN scroll.targetPosition
            ELSE scroll.startPosition + (distance * frames) \div scroll.duration
        w1 == [w EXCEPT !.scrolls[k].elapsed = frames,
                        !.pageYOffset = currentPosition]
    IN  IF ~done THEN requestAnimationFrame(w1, k)
        ELSE [w1 EXCEPT !.scrollState.isScrolling = FALSE,
                        !.scrollState.animationFrameId = 0,
                        !.scrolls[k].promise = "resolved"]

\* cancelScroll without its cancelAnimationFrame call
cancelScrollFlagOnly(w) ==
    [w EXCEPT !.scrollState.isScrolling = FALSE,
              !.scrollState.animationFrameId = 0]

cancelScroll(w) ==
    LET w1 == IF w.scrollState.animationFrameId # 0
              THEN [cancelAnimationFrame(w, w.scrollState.animationFrameId)
                       EXCEPT !.scrollState.animationFrameId = 0]
              ELSE w
    IN  [w1 EXCEPT !.scrollState.isScrolling = FALSE]

\* lockScroll: the page position is saved for unlockScroll
lockScroll(w) ==
    IF w.scrollState.scrollLocked THEN w
    ELSE [w EXCEPT !.scrollState.scrollPosition = w.pageYOffset,
                   !.scrollState.scrollLocked = TRUE]

\* unlockScroll: window.scrollTo(0, scrollState.scrollPosition)
unlockScroll(w) ==
    IF ~w.scrollState.scrollLocked THEN w
    ELSE [w EXCEPT !.pageYOffset = w.scrollState.scrollPosition,
                   !.scrollState.scrollLocked = FALSE]

\* cleanupScroll: cancelScroll, disconnectObserver, unlockScroll
cleanupScroll(w) == unlockScroll(cancelScroll(w))

SmoothScrollToPosition ==
    \E targetPosition \in ScrollTargets, duration \in ScrollDurations :
        /\ Len(scrolls) < MaxScrolls
        /\ CommitScroll(smoothScrollToPosition(CurScroll, targetPosition,
                                               duration))
        /\ UNCHANGED <<focusVars, utilVars, imageVars, formVars, navVars, pairVars>>

CancelScroll ==
    /\ CommitScroll(cancelScroll(CurScroll))
    /\ UNCHANGED <<focusVars, utilVars, imageVars, formVars, navVars, pairVars>>

LockScroll ==
    /\ CommitScroll(lockScroll(CurScroll))
    /\ UNCHANGED <<focusVars, utilVars, imageVars, formVars, navVars, pairVars>>

UnlockScroll ==
    /\ CommitScroll(unlockScroll(CurScroll))
    /\ UNCHANGED <<focusVars, utilVars, imageVars, formVars, navVars, pairVars>>

CleanupScroll ==
    /\ CommitScroll(cleanupScroll(CurScroll))
    /\ UNCHANGED <<focusVars, utilVars, imageVars, formVars, navVars, pairVars>>

\* The browser runs a pending animation-frame callback.
AnimationFrame ==
    \E cb \in frameCallbacks :
        /\ CommitScroll(animate(cancelAnimationFrame(CurScroll, cb.id),
                                cb.scroll))
        /\ UNCHANGED <<focusVars, utilVars, imageVars, formVars, navVars, pairVars>>

InitScroll == FocusIdle /\ RestIdle

NextScroll ==
    \/ SmoothScrollToPosition \/ CancelScroll \/ AnimationFrame
    \/ LockScroll \/ UnlockScroll \/ CleanupScroll

SpecScroll == InitScroll /\ [][NextScroll]_vars

\* Animation frames keep firing.
SpecScrollFair == SpecScroll /\ WF_vars(AnimationFrame)

\* ------------------------------------- validateForm of the two modules

\* main.js validationRules; an absent minLength or maxLength is 0, an
\* absent pattern "none".
validationRulesOfForm ==
    [name |-> [required |-> TRUE, minLength |-> 2, maxLength |-> 100,
               pattern |-> "name"],
     email |-> [required |-> TRUE, minLength |-> 0, maxLength |-> 0,
                pattern |-> "email"],
     phone |-> [required |-> FALSE, minLength |-> 0, maxLength |-> 0,
                pattern |-> "phone"],
     service |-> [required |-> TRUE, minLength |-> 0, maxLength |-> 0,
                  pattern |-> "none"],
     message |-> [required |-> TRUE, minLength |-> 10, maxLength |-> 1000,
                  pattern |-> "none"],
     consent |-> [required |-> TRUE, minLength |-> 0, maxLength |-> 0,
                  pattern |-> "none"]]

\* contact-form.js VALIDATION_RULES; errorMessages holds the keys that have
\* a message
VALIDATION_RULES_OF_FORM ==
    [name |-> [minLength |-> 2, maxLength |-> 100, pattern |-> "name",
               errorMessages |-> {"required", "minLength", "maxLength",
                                  "pattern"}],
     email |-> [minLength |-> 0, maxLength |-> 254, pattern |-> "email",
                errorMessages |-> {"required", "pattern", "maxLength"}],
     phone |-> [minLength |-> 10, maxLength |-> 20, pattern |-> "phone",
                errorMessages |-> {"pattern", "minLength", "maxLength"}],
     service |-> [minLength |-> 0, maxLength |-> 0, pattern |-> "none",
                  errorMessages |-> {"required"}],
     message |-> [minLength |-> 10, maxLength |-> 1000, pattern |-> "none",
                  errorMessages |-> {"required", "minLength", "maxLength"}],
     consent |-> [minLength |-> 0, maxLength |-> 0, pattern |-> "none",
                  errorMessages |-> {"required"}]]

TextFields == {"name", "email", "phone", "message"}

FieldNames == TextFields \cup {"service", "consent"}

\* A run of n equal characters.
Run(ch, n) == [ch |-> ch, n |-> n]

\* The values a user gives the fields.
FieldSamples ==
    [name |-> {<<Run("a", 2)>>, <<Run("1", 2)>>},
     email |-> {<<Run("a", 1), Run("@", 1), Run("a", 1), Run(".", 1), Run("a", 1)>>,
                <<Run("a", 1), Run("@", 1), Run("a", 1)>>},
     phone |-> {<<Run("1", 5)>>, <<Run("1", 10)>>, <<Run("1", 21)>>,
                <<Run("a", 10)>>},
     service |-> {<<Run("a", 3)>>},
     message |-> {<<Run("a", 9)>>, <<Run("a", 10)>>}]

\* The characters of a string given as runs.
RECURSIVE characters(_)
characters(runs) ==
    IF runs = <<>> THEN <<>>
    ELSE [i \in 1..Head(runs).n |-> Head(runs).ch] \o characters(Tail(runs))

\* /^[a-zA-Z\s'-]+$/
namePattern(s) ==
    /\ s # <<>>
    /\ \A i \in 1..Len(s) : s[i] \in {"a", " ", "'", "-"}

\* /^[^\s@]+@[^\s@]+\.[^\s@]+$/
emailPattern(s) ==
    \E i \in 2..Len(s), j \in 4..Len(s) :
        /\ j > i + 1 /\ j < Len(s)
        /\ s[i] = "@" /\ s[j] = "."
        /\ \A k \in (1..Len(s)) \ {i} : s[k] \notin {" ", "@"}

\* /^[\d\s()+-]+$/
phonePattern(s) ==
    /\ s # <<>>
    /\ \A i \in 1..Len(s) : s[i] \in {"1", " ", "(", ")", "+", "-"}

\* rules.pattern.test(trimmedValue)
patternTest(pattern, trimmedValue) ==
    IF pattern = "name" THEN namePattern(characters(trimmedValue))
    ELSE IF pattern = "email" THEN emailPattern(characters(trimmedValue))
    ELSE phonePattern(characters(trimmedValue))

\* main.js validateField(fieldName, value) for a string value: isValid
validateFieldByMain(fieldName, value) ==
    LET rules == validationRulesOfForm[fieldName]
        empty == length(value) = 0 \/ length(trim(value)) = 0
        trimmedValue == trim(value)
    IN  IF rules.required /\ empty THEN FALSE
        ELSE IF ~rules.required /\ empty THEN TRUE
        ELSE IF rules.minLength # 0 /\ length(trimmedValue) < rules.minLength
        THEN FALSE
        ELSE IF rules.maxLength # 0 /\ length(trimmedValue) > rules.maxLength
        THEN FALSE
        ELSE IF rules.pattern # "none" /\ ~patternTest(rules.pattern, trimmedValue)
        THEN FALSE
        ELSE TRUE

\* main.js validateForm: the FormData entries, then the consent checkbox
validateFormByMain(fields, checked) ==
    /\ \A fieldName \in DOMAIN fields :
           validateFieldByMain(fieldName, fields[fieldName])
    /\ ~(validationRulesOfForm.consent.required /\ ~checked)

\* rules.errorMessages[key] is undefined: the caller's `if (errorMessage)`
\* sees no error
Falsy(rules, key) == key \notin rules.errorMessages

\* contact-form.js validateField(fieldName, value, isRequired): whether the
\* value returned is falsy (null, or the undefined of a missing message)
validateFieldByContactForm(fieldName, value, isRequired) ==
    LET rules == VALIDATION_RULES_OF_FORM[fieldName]
        trimmedValue == trim(value)
    IN  IF isRequired /\ length(trimmedValue) = 0 THEN Falsy(rules, "required")
        ELSE IF ~isRequired /\ length(trimmedValue) = 0 THEN TRUE
        ELSE IF rules.minLength # 0 /\ length(trimmedValue) < rules.minLength
        THEN Falsy(rules, "minLength")
        ELSE IF rules.maxLength # 0 /\ length(trimmedValue) > rules.maxLength
        THEN Falsy(rules, "maxLength")
        ELSE IF rules.pattern # "none" /\ ~patternTest(rules.pattern, trimmedValue)
        THEN Falsy(rules, "pattern")
        ELSE TRUE

\* contact-form.js validateFormField: the checkbox, the select, a text field
validateFormField(fieldName, fields, checked, isRequired) ==
    IF fieldName = "consent"
    THEN ~(isRequired /\ ~checked)
         \/ Falsy(VALIDATION_RULES_OF_FORM[fieldName], "required")
    ELSE IF fieldName = "service"
    THEN ~(isRequired /\ length(fields.service) = 0)
         \/ Falsy(VALIDATION_RULES_OF_FORM[fieldName], "required")
    ELSE validateFieldByContactForm(fieldName, fields[fieldName], isRequired)

\* contact-form.js validateForm; `required` holds the fields whose element
\* has the required attribute
validateFormByContactForm(fields, checked, required) ==
    \A fieldName \in FieldNames :
        validateFormField(fieldName, fields, checked, fieldName \in required)

\* The user fills in a field.
FillField ==
    \E fieldName \in DOMAIN FieldSamples :
        \E value \in FieldSamples[fieldName] :
            /\ formFields[fieldName] = <<>>
            /\ formFields' = [formFields EXCEPT ![fieldName] = value]
            /\ judged' = NotJudged
            /\ UNCHANGED <<consentChecked, focusVars, utilVars, imageVars,
                           scrollVars, navVars, pairVars>>

CheckConsent ==
    /\ ~consentChecked
    /\ consentChecked' = TRUE
    /\ judged' = NotJudged
    /\ UNCHANGED <<formFields, focusVars, utilVars, imageVars, scrollVars, navVars,
                   pairVars>>

\* A submit event: both listeners validate the form. The markup's required
\* attributes are an input.
ValidateForms ==
    \E required \in SUBSET FieldNames :
        /\ judged' = [done |-> TRUE, required |-> required,
                      byMain |-> validateFormByMain(formFields, consentChecked),
                      byContactForm |->
                          validateFormByContactForm(formFields, consentChecked,
                                                    required)]
        /\ UNCHANGED <<formFields, consentChecked, focusVars, utilVars,
                       imageVars, scrollVars, navVars, pairVars>>

InitForm == FocusIdle /\ RestIdle

NextForm == FillField \/ CheckConsent \/ ValidateForms

SpecForm == InitForm /\ [][NextForm]_vars

\* ------------------------------------------------ mobile navigation

MaxOpens == 2

MaxNavTimers == 3

\* NAVIGATION_CONFIG.ANIMATION_DURATION and DEBOUNCE_DELAY, in ms.
ANIMATION_DURATION == 300

DEBOUNCE_DELAY == 100

\* NAVIGATION_CONFIG.SCROLL_OFFSET, in px.
SCROLL_OFFSET == 80

\* The sections of the page and their offsetTop, and the height of the
\* navigation container, in px.
SectionOffsetTop == [services |-> 200]

NavHeight == 20

\* The ids smoothScrollToSection is called with: a section of the page, and
\* an id no element has.
TargetIds == DOMAIN SectionOffsetTop \cup {"missing"}

\* The navigation state handed through the functions, with the position
\* of the window they scroll.
CurNav ==
    [isMenuOpen |-> isMenuOpen, mobileViewport |-> mobileViewport,
     navFocus |-> navFocus, navTimers |-> navTimers, menuOpens |-> menuOpens,
     isScrolling |-> navIsScrolling, listeners |-> navListeners,
     pageYOffset |-> pageYOffset]

CommitNav(v) ==
    /\ isMenuOpen' = v.isMenuOpen
    /\ mobileViewport' = v.mobileViewport
    /\ navFocus' = v.navFocus
    /\ navTimers' = v.navTimers
    /\ menuOpens' = v.menuOpens
    /\ navIsScrolling' = v.isScrolling
    /\ navListeners' = v.listeners
    /\ pageYOffset' = v.pageYOffset

getScrollOffset == NavHeight + SCROLL_OFFSET

\* The delay of initNavigation's scroll to the section the URL's hash names
InitialHashDelay == 100

\* The elements that take focus, in document order: the toggle button, the
\* links of the menu, a section (once main.js gives it tabindex="-1") and
\* the controls it contains.
TabOrder == <<"navToggle", "firstLink", "lastLink", "section", "content">>

MenuLinks == <<"firstLink", "lastLink">>

setTimeoutOfNav(v, callback, ms) ==
    [v EXCEPT !.navTimers =
        Append(@, [left |-> ms, callback |-> callback, target |-> "none"])]

openMobileMenu(v) ==
    IF ~v.mobileViewport \/ v.isMenuOpen THEN v
    ELSE setTimeoutOfNav([v EXCEPT !.isMenuOpen = TRUE, !.menuOpens = @ + 1],
                         "focusFirstLink", ANIMATION_DURATION)

closeMobileMenu(v) ==
    IF ~v.isMenuOpen THEN v
    ELSE [v EXCEPT !.isMenuOpen = FALSE, !.navFocus = "navToggle"]

toggleMobileMenu(v) ==
    IF v.isMenuOpen THEN closeMobileMenu(v) ELSE openMobileMenu(v)

\* smoothScrollToSection(targetId): nothing for an id no element has;
\* otherwise the window is scrolled to the section, on a mobile viewport the
\* menu is closed after the animation, and isScrolling is reset after twice
\* the animation
smoothScrollToSection(v, targetId) ==
    IF targetId \notin DOMAIN SectionOffsetTop THEN v
    ELSE LET targetPosition == SectionOffsetTop[targetId] - getScrollOffset
             v1 == [v EXCEPT !.isScrolling = TRUE,
                             !.pageYOffset = targetPosition]
             v2 == IF v1.mobileViewport
                   THEN setTimeoutOfNav(v1, "closeMobileMenu",
                                        ANIMATION_DURATION)
                   ELSE v1
         IN  setTimeoutOfNav(v2, "resetScrolling", ANIMATION_DURATION * 2)

\* main.js handleSmoothScroll, the click listener of document, for a link
\* to #targetId: scrollIntoView, tabindex="-1" and focus() on the target.
\* `position` is where the window is once the smooth scrolls the click
\* started have ended.
handleSmoothScroll(v, targetId, position) ==
    IF targetId \notin DOMAIN SectionOffsetTop THEN v
    ELSE [v EXCEPT !.pageYOffset = position, !.navFocus = "section"]

handleResize(v) ==
    IF ~v.mobileViewport /\ v.isMenuOpen THEN closeMobileMenu(v) ELSE v

\* debounce(handleResize, DEBOUNCE_DELAY): the pending call is replaced
debouncedHandleResize(v) ==
    setTimeoutOfNav([v EXCEPT !.navTimers =
                        SelectSeq(@, LAMBDA timer : timer.callback # "handleResize")],
                    "handleResize", DEBOUNCE_DELAY)

\* The elements a keydown event can be dispatched on; one dispatched on
\* document itself has target "document".
KeyTargets == Range(TabOrder) \cup {"body", "document"}

\* handleKeyboardNavigation(event), for an event of the given key, shiftKey
\* and target: the state it leaves and whether it called preventDefault.
\* Enter and Space look at event.target, Tab at document.activeElement.
handleKeyboardNavigation(v, key, shiftKey, target) ==
    IF key = "Escape" /\ v.isMenuOpen
    THEN [v |-> closeMobileMenu(v), defaultPrevented |-> TRUE]
    ELSE IF key \in {"Enter", " "} /\ target = "navToggle"
    THEN [v |-> toggleMobileMenu(v), defaultPrevented |-> TRUE]
    ELSE IF key = "Tab" /\ v.isMenuOpen /\ v.mobileViewport
    THEN IF shiftKey /\ v.navFocus = Head(MenuLinks)
         THEN [v |-> [v EXCEPT !.navFocus = "navToggle"],
               defaultPrevented |-> TRUE]
         ELSE IF ~shiftKey /\ v.navFocus = Last(MenuLinks)
         THEN [v |-> [v EXCEPT !.navFocus = "navToggle"],
               defaultPrevented |-> TRUE]
         ELSE [v |-> v, defaultPrevented |-> FALSE]
    ELSE [v |-> v, defaultPrevented |-> FALSE]

\* A click on a link of the menu whose href names the target. The link
\* takes focus, then handleNavLinkClick runs on the link while attached, then
\* main.js's handleSmoothScroll on document. Two smooth scrolls were asked
\* for: `intoView` tells whether the window ends at the top of the section,
\* as scrollIntoView asked, or where it was before that call.
clickNavLink(v, link, targetId, intoView) ==
    LET v0 == [v EXCEPT !.navFocus = link]
        v1 == IF v0.listeners THEN smoothScrollToSection(v0, targetId) ELSE v0
        position == IF intoView /\ targetId \in DOMAIN SectionOffsetTop
                    THEN SectionOffsetTop[targetId]
                    ELSE v1.pageYOffset
    IN  handleSmoothScroll(v1, targetId, position)

\* Whether sequential navigation stops at the element: never at an element
\* of tabindex="-1"; at a link of the closed menu of a mobile viewport only
\* if the stylesheet leaves it focusable.
NavTabStop(v, el, focusable) ==
    /\ el # "section"
    /\ \/ el \notin Range(MenuLinks)
       \/ v.isMenuOpen \/ ~v.mobileViewport \/ focusable

\* The browser's default action of a Tab key: the next (previous) stop, from
\* the active element or from the document's start (end).
nativeTab(v, shiftKey, focusable) ==
    LET at == {i \in 1..Len(TabOrder) : TabOrder[i] = v.navFocus}
        i == IF at = {} THEN (IF shiftKey THEN Len(TabOrder) + 1 ELSE 0)
             ELSE CHOOSE j \in at : TRUE
        stops == {j \in 1..Len(TabOrder) :
                     /\ NavTabStop(v, TabOrder[j], focusable)
                     /\ IF shiftKey THEN j < i ELSE j > i}
    IN  [v EXCEPT !.navFocus =
            IF stops = {} THEN "body"
            ELSE TabOrder[CHOOSE j \in stops :
                             \A k \in stops : IF shiftKey THEN k <= j ELSE j <= k]]

\* A keydown event on `target`: the listener of document while it is
\* attached, then, for a key the user pressed (a trusted event, whose target
\* is the active element) and unless the listener prevented it, the default
\* action: Tab moves focus, Enter on a link clicks it.
navKeydown(v, key, shiftKey, target, isTrusted, focusable, targetId, intoView) ==
    LET afterListener ==
            IF v.listeners
            THEN handleKeyboardNavigation(v, key, shiftKey, target)
            ELSE [v |-> v, defaultPrevented |-> FALSE]
        w == afterListener.v
    IN  IF ~isTrusted \/ afterListener.defaultPrevented THEN w
        ELSE IF key = "Tab" THEN nativeTab(w, shiftKey, focusable)
        ELSE IF key = "Enter" /\ w.navFocus \in Range(MenuLinks)
        THEN clickNavLink(w, w.navFocus, targetId, intoView)
        ELSE w

\* initNavigation with the URL's hash: attachEventListeners, and the
\* deferred scroll to the section the hash names
initNavigation(v, hash) ==
    LET v1 == [v EXCEPT !.listeners = TRUE]
    IN  IF hash = "" THEN v1
        ELSE [v1 EXCEPT !.navTimers =
                 Append(@, [left |-> InitialHashDelay,
                            callback |-> "smoothScrollToSection",
                            target |-> hash])]

\* cleanupNavigation: removeEventListeners, the menu closed, the state reset
cleanupNavigation(v) ==
    LET v1 == [v EXCEPT !.listeners = FALSE]
        v2 == IF v1.isMenuOpen THEN closeMobileMenu(v1) ELSE v1
    IN  [v2 EXCEPT !.isMenuOpen = FALSE, !.isScrolling = FALSE]

\* firstLink.focus(): `focusable` tells whether the link of a closed menu
\* can take focus, which the stylesheet decides
focusFirstLink(v, focusable) ==
    IF v.isMenuOpen \/ focusable THEN [v EXCEPT !.navFocus = "firstLink"] ELSE v

runNavTimer(v, timer, focusable) ==
    IF timer.callback = "focusFirstLink" THEN focusFirstLink(v, focusable)
    ELSE IF timer.callback = "closeMobileMenu" THEN closeMobileMenu(v)
    ELSE IF timer.callback = "resetScrolling"
    THEN [v EXCEPT !.isScrolling = FALSE]
    ELSE IF timer.callback = "smoothScrollToSection"
    THEN smoothScrollToSection(v, timer.target)
    ELSE handleResize(v)

DueNavTimers == {i \in 1..Len(navTimers) : navTimers[i].left = 0}

NextDueNavTimer == CHOOSE i \in DueNavTimers : \A j \in DueNavTimers : i <= j

WithoutNavTimer(v, i) ==
    [v EXCEPT !.navTimers = SubSeq(@, 1, i - 1) \o SubSeq(@, i + 1, Len(@))]

NavMinLeft ==
    LET i == CHOOSE i \in 1..Len(navTimers) :
                 \A j \in 1..Len(navTimers) :
                     navTimers[i].left <= navTimers[j].left
    IN  navTimers[i].left

\* A click on the toggle button, which takes focus; toggleMobileMenu is its
\* listener while attached.
ToggleClick ==
    /\ menuOpens < MaxOpens \/ isMenuOpen
    /\ LET v == [CurNav EXCEPT !.navFocus = "navToggle"]
       IN  CommitNav(IF navListeners THEN toggleMobileMenu(v) ELSE v)
    /\ UNCHANGED <<focusVars, utilVars, imageVars, scrollState, frameCallbacks,
                   frameIds, scrolls, formVars, pairVars>>

\* A keydown event reaches document: Escape, Tab, Enter or Space, pressed
\* by the user, with the active element as its target, or dispatched by a
\* script on any element. The handler reads the target of Enter and Space
\* only, so the other keys are dispatched on the active element.
NavKeyDown ==
    \E key \in {"Escape", "Tab", "Enter", " "},
       shiftKey, isTrusted, focusable, intoView \in BOOLEAN,
       target \in KeyTargets, targetId \in TargetIds :
        /\ (isTrusted \/ key \in {"Escape", "Tab"}) => target = navFocus
        /\ (shiftKey \/ focusable) => key = "Tab"
        /\ (intoView \/ targetId # "missing") => (key = "Enter" /\ isTrusted)
        /\ menuOpens < MaxOpens \/ isMenuOpen \/ key \in {"Escape", "Tab"}
        /\ Len(navTimers) + 1 < MaxNavTimers \/ key # "Enter"
        /\ CommitNav(navKeydown(CurNav, key, shiftKey, target, isTrusted,
                                focusable, targetId, intoView))
        /\ UNCHANGED <<focusVars, utilVars, imageVars, scrollState, frameCallbacks,
                       frameIds, scrolls, formVars, pairVars>>

\* A click on the overlay of the open menu; closeMobileMenu is its listener.
OverlayClick ==
    /\ isMenuOpen
    /\ CommitNav(IF navListeners THEN closeMobileMenu(CurNav) ELSE CurNav)
    /\ UNCHANGED <<focusVars, utilVars, imageVars, scrollState, frameCallbacks,
                   frameIds, scrolls, formVars, pairVars>>

\* A click on a link of the open menu, or of the navigation bar of a wide
\* viewport.
NavLinkClick ==
    \E link \in Range(MenuLinks), targetId \in TargetIds, intoView \in BOOLEAN :
        /\ isMenuOpen \/ ~mobileViewport
        /\ Len(navTimers) + 1 < MaxNavTimers
        /\ CommitNav(clickNavLink(CurNav, link, targetId, intoView))
        /\ UNCHANGED <<focusVars, utilVars, imageVars, scrollState, frameCallbacks,
                       frameIds, scrolls, formVars, pairVars>>

\* Another script calls the exported navigateToSection(sectionId).
NavigateToSection ==
    \E sectionId \in TargetIds :
        /\ Len(navTimers) + 1 < MaxNavTimers
        /\ CommitNav(smoothScrollToSection(CurNav, sectionId))
        /\ UNCHANGED <<focusVars, utilVars, imageVars, scrollState, frameCallbacks,
                       frameIds, scrolls, formVars, pairVars>>

\* Another script calls the exported initNavigation(); the URL has no hash,
\* or one that names a target.
InitNavigation ==
    \E hash \in {""} \cup TargetIds :
        /\ Len(navTimers) + 1 < MaxNavTimers
        /\ CommitNav(initNavigation(CurNav, hash))
        /\ UNCHANGED <<focusVars, utilVars, imageVars, scrollState, frameCallbacks,
                       frameIds, scrolls, formVars, pairVars>>

\* Another script calls the exported cleanupNavigation().
CleanupNavigation ==
    /\ CommitNav(cleanupNavigation(CurNav))
    /\ UNCHANGED <<focusVars, utilVars, imageVars, scrollState, frameCallbacks,
                   frameIds, scrolls, formVars, pairVars>>

\* The window is resized across the mobile breakpoint; the debounced
\* handleResize is its listener while attached.
Resize ==
    /\ Len(navTimers) < MaxNavTimers
    /\ LET v == [CurNav EXCEPT !.mobileViewport = ~mobileViewport]
       IN  CommitNav(IF navListeners THEN debouncedHandleResize(v) ELSE v)
    /\ UNCHANGED <<focusVars, utilVars, imageVars, scrollState, frameCallbacks,
                   frameIds, scrolls, formVars, pairVars>>

FireNavTimer ==
    \E focusable \in BOOLEAN :
        /\ DueNavTimers # {}
        /\ CommitNav(runNavTimer(WithoutNavTimer(CurNav, NextDueNavTimer),
                                 navTimers[NextDueNavTimer], focusable))
        /\ UNCHANGED <<focusVars, utilVars, imageVars, scrollState, frameCallbacks,
                       frameIds, scrolls, formVars, pairVars>>

AdvanceNav ==
    /\ navTimers # <<>>
    /\ \E d \in {DEBOUNCE_DELAY, NavMinLeft} :
        /\ d > 0 /\ d <= NavMinLeft
        /\ navTimers' = [i \in 1..Len(navTimers) |->
                            [navTimers[i] EXCEPT !.left = @ - d]]
        /\ UNCHANGED <<isMenuOpen, mobileViewport, navFocus, menuOpens,
                       navIsScrolling, navListeners, focusVars, utilVars,
                       imageVars, scrollVars, formVars, pairVars>>

InitNav == FocusIdle /\ RestIdle

NextNav ==
    \/ ToggleClick \/ NavKeyDown \/ OverlayClick \/ NavLinkClick \/ Resize
    \/ NavigateToSection \/ InitNavigation \/ CleanupNavigation
    \/ FireNavTimer \/ AdvanceNav

SpecNav == InitNav /\ [][NextNav]_vars

\* ------------------------------------- two focus traps (validation.js)

\* Two traps created by createFocusTrap on the disjoint containers A and B
\* of one document; every element of the page is a button.
PairTraps == {"A", "B"}

PairNodes == {"a1", "a2", "b1", "out"}

\* The children of the trap's container, in document order.
containerOfPair(t) == IF t = "A" THEN <<"a1", "a2">> ELSE <<"b1">>

\* container.contains(node) for the container of trap t
containsOfPair(t, node) == node \in Range(containerOfPair(t))

CurPair ==
    [traps |-> pairTraps, listeners |-> pairListeners, focus |-> pairFocus,
     disabled |-> pairDisabled]

CommitPair(p) ==
    /\ pairTraps' = p.traps
    /\ pairListeners' = p.listeners
    /\ pairFocus' = p.focus
    /\ pairDisabled' = p.disabled

getFocusableElementsOfPair(p, t) ==
    SelectSeq(containerOfPair(t), LAMBDA el : el \notin p.disabled)

getFirstFocusableElementOfPair(p, t) ==
    LET els == getFocusableElementsOfPair(p, t)
    IN  IF Len(els) > 0 THEN els[1] ELSE "null"

\* element.focus(): a disabled button and the body take no focus.
setFocusOfPair(p, el) ==
    IF el \in PairNodes /\ el \notin p.disabled
    THEN [p EXCEPT !.focus = el] ELSE p

restoreFocusOfPair(p, el) ==
    IF el \in PairNodes \cup {"body"} THEN setFocusOfPair(p, el) ELSE p

\* createFocusTrap(container, {allowOutsideClick})
createFocusTrapOfPair(p, t, allowOutsideClick) ==
    [p EXCEPT !.traps[t] = [created |-> TRUE, active |-> FALSE,
                            returnFocus |-> p.focus,
                            allowOutsideClick |-> allowOutsideClick]]

\* controller.activate() of trap t
activateOfPair(p, t) ==
    IF p.traps[t].active THEN p
    ELSE LET p1 == [p EXCEPT !.traps[t].active = TRUE,
                             !.listeners = Append(@, t)]
             firstElement == getFirstFocusableElementOfPair(p1, t)
         IN  IF firstElement # "null" THEN setFocusOfPair(p1, firstElement)
             ELSE p1

\* controller.release() of trap t
releaseOfPair(p, t) ==
    IF ~p.traps[t].active THEN p
    ELSE LET p1 == [p EXCEPT !.traps[t].active = FALSE,
                             !.listeners = SelectSeq(@, LAMBDA u : u # t)]
         IN  restoreFocusOfPair(p1, p1.traps[t].returnFocus)

PairEvent(op, target) ==
    [op |-> op, target |-> target, defaultPrevented |-> FALSE,
     propagationStopped |-> FALSE, called |-> <<>>, cancelledBy |-> {}]

\* handleOutsideClick that acts only in the trap activated last
handleOutsideClickOfTopmost(c0, t) ==
    LET c == [c0 EXCEPT !.e.called = Append(@, t)]
        firstElement == getFirstFocusableElementOfPair(c.s, t)
    IN  IF /\ ~c.s.traps[t].allowOutsideClick
           /\ ~containsOfPair(t, c.e.target)
           /\ Last(c.s.listeners) = t
        THEN LET e1 == [c.e EXCEPT !.defaultPrevented = TRUE,
                                   !.propagationStopped = TRUE,
                                   !.cancelledBy = @ \cup {t}]
             IN  IF firstElement # "null"
                 THEN Ctx(setFocusOfPair(c.s, firstElement), e1)
                 ELSE Ctx(c.s, e1)
        ELSE c

\* handleOutsideClick of trap t
handleOutsideClickOfPair(c0, t) ==
    LET c == [c0 EXCEPT !.e.called = Append(@, t)]
        firstElement == getFirstFocusableElementOfPair(c.s, t)
    IN  IF ~c.s.traps[t].allowOutsideClick /\ ~containsOfPair(t, c.e.target)
        THEN LET e1 == [c.e EXCEPT !.defaultPrevented = TRUE,
                                   !.propagationStopped = TRUE,
                                   !.cancelledBy = @ \cup {t}]
             IN  IF firstElement # "null"
                 THEN Ctx(setFocusOfPair(c.s, firstElement), e1)
                 ELSE Ctx(c.s, e1)
        ELSE c

\* The capturing mousedown listeners of document, in registration order:
\* stopPropagation does not keep the later listeners of the same node from
\* running.
RECURSIVE captureListenersOfPair(_, _)
captureListenersOfPair(c, listeners) ==
    IF listeners = <<>> THEN c
    ELSE captureListenersOfPair(handleOutsideClickOfPair(c, Head(listeners)),
                                Tail(listeners))

\* A pointer-down focuses its target unless a listener cancelled it.
defaultMousedownOfPair(c) ==
    IF c.e.defaultPrevented THEN c
    ELSE IF c.e.target \in PairNodes /\ c.e.target \notin c.s.disabled
    THEN Ctx([c.s EXCEPT !.focus = c.e.target], c.e)
    ELSE Ctx([c.s EXCEPT !.focus = "body"], c.e)

dispatchMousedownOfPair(p, target) ==
    defaultMousedownOfPair(
        captureListenersOfPair(Ctx(p, PairEvent("mousedown", target)),
                               p.listeners))

CreateTrap ==
    \E t \in PairTraps, allowOutsideClick \in BOOLEAN :
        /\ ~pairTraps[t].created
        /\ CommitPair(createFocusTrapOfPair(CurPair, t, allowOutsideClick))
        /\ pairEvent' = PairEvent("createFocusTrap", t)
        /\ UNCHANGED <<focusVars, utilVars, imageVars, scrollVars, formVars,
                       navVars>>

ActivateTrap ==
    \E t \in PairTraps :
        /\ pairTraps[t].created
        /\ CommitPair(activateOfPair(CurPair, t))
        /\ pairEvent' = PairEvent("activate", t)
        /\ UNCHANGED <<focusVars, utilVars, imageVars, scrollVars, formVars,
                       navVars>>

ReleaseTrap ==
    \E t \in PairTraps :
        /\ pairTraps[t].created
        /\ CommitPair(releaseOfPair(CurPair, t))
        /\ pairEvent' = PairEvent("release", t)
        /\ UNCHANGED <<focusVars, utilVars, imageVars, scrollVars, formVars,
                       navVars>>

\* The pointer is pressed on an element of the page or on the body.
PointerDown ==
    \E target \in PairNodes \cup {"body"} :
        LET c == dispatchMousedownOfPair(CurPair, target)
        IN  /\ CommitPair(c.s)
            /\ pairEvent' = c.e
            /\ UNCHANGED <<focusVars, utilVars, imageVars, scrollVars,
                           formVars, navVars>>

\* A script sets or removes the disabled attribute of a button of a
\* container that does not hold the focus.
ToggleDisabled ==
    \E el \in Range(containerOfPair("A")) \cup Range(containerOfPair("B")) :
        /\ el # pairFocus
        /\ pairDisabled' = IF el \in pairDisabled THEN pairDisabled \ {el}
                           ELSE pairDisabled \cup {el}
        /\ pairEvent' = PairEvent("disabled", el)
        /\ UNCHANGED <<pairTraps, pairListeners, pairFocus>>
        /\ UNCHANGED <<focusVars, utilVars, imageVars, scrollVars, formVars,
                       navVars>>

InitPair == FocusIdle /\ RestIdle

NextPair ==
    \/ CreateTrap \/ ActivateTrap \/ ReleaseTrap \/ PointerDown
    \/ ToggleDisabled

SpecPair == InitPair /\ [][NextPair]_vars

\* ------------------------------------------------------------ claims

\* The step is a Tab (or Shift+Tab) key press.
TabPressed == ev'.op = "keydown" /\ ev'.key = "Tab"

\* C1: while the trap is active over a container with at least one
\* focusable element, the focused element is inside the container after
\* every Tab or Shift+Tab press, whether the trap handled the key or the
\* browser's default navigation did.
C1_TabStaysInContainer ==
    [][(TabPressed /\ state.active /\ Len(getFocusableElements(Cur)) > 0)
          => Contains(activeElement')]_vars

\* C2: on a Tab keydown while the trap is active, with F the focusable list
\* at that moment: F empty => prevented, focus stays; Tab from the last of F
\* or from outside => prevented, focus on the first of F; Shift+Tab from the
\* first of F or from outside => prevented, focus on the last of F; otherwise
\* the trap neither prevents the event nor moves focus.
C2_TabKeyCases ==
    [][(TabPressed /\ state.active)
          => LET F == getFocusableElements(Cur)
                 outside == ~Contains(activeElement)
             IN  IF Len(F) = 0
                 THEN ev'.defaultPrevented /\ activeElement' = activeElement
                 ELSE IF ~ev'.shiftKey /\ (activeElement = Last(F) \/ outside)
                 THEN ev'.defaultPrevented /\ activeElement' = F[1]
                 ELSE IF ev'.shiftKey /\ (activeElement = F[1] \/ outside)
                 THEN ev'.defaultPrevented /\ activeElement' = Last(F)
                 ELSE ~ev'.defaultPrevented /\ ~ev'.handlersMovedFocus]_vars

\* A Shift+Tab pressed outside the container has been wrapped to the last
\* of at least two focusable elements.
C2_Witness ==
    /\ ev.op = "keydown" /\ ev.key = "Tab" /\ ev.shiftKey
    /\ "handleTabKey" \in ev.called
    /\ ev.defaultPrevented /\ ev.handlersMovedFocus
    /\ Len(getFocusableElements(Cur)) >= 2
    /\ activeElement = Last(getFocusableElements(Cur))

\* The step deactivates the trap: release(), directly or through Escape.
Released == state.active /\ ~state'.active

\* C3: release() of the active trap moves focus to the element focused
\* immediately before activate() when no returnFocus option was given
\* (whatever was focused when the trap was created), and to the returnFocus
\* element when one was.
C3_ReleaseRestoresFocus ==
    [][Released
          => IF options.returnFocus # Null
             THEN activeElement' = options.returnFocus
             ELSE focusBeforeActivate \in Nodes
                     => activeElement' = focusBeforeActivate]_vars

\* C4: after an Escape keydown that reached the document the trap is
\* inactive, wherever focus was.
C4_EscapeReleases ==
    (ev.op = "keydown" /\ ev.key = "Escape" /\ ~ev.propagationStopped)
        => ~state.active

\* Escape was pressed while the trap was active and focus was outside the
\* container (release() had nothing to restore focus to, so focus is still
\* where it was), and the trap's handler ran.
C4_Witness ==
    /\ ev.op = "keydown" /\ ev.key = "Escape"
    /\ "handleEscapeKey" \in ev.called
    /\ ~state.active
    /\ state.returnFocus = Body
    /\ activeElement \in Outside

\* C5: activate() on an active trap and release() on an inactive trap leave
\* the active flag, the registered document listeners and the focused
\* element unchanged.
C5_RepeatedCallsAreNoOps ==
    [][((ev'.op = "activate" /\ state.active)
        \/ (ev'.op = "release" /\ ~state.active))
          => /\ state' = state
             /\ docListeners' = docListeners
             /\ activeElement' = activeElement]_vars

\* activate() was called on an active trap whose focus had left the
\* container, and focus was not pulled back to the first focusable element.
C5_Witness ==
    /\ ev.op = "activate"
    /\ state.active
    /\ docListeners = TrapHandlers
    /\ options.initialFocus = Null
    /\ Len(getFocusableElements(Cur)) > 0
    /\ ~Contains(activeElement)

\* C6: while a trap with allowOutsideClick=false is active, a mousedown
\* outside the container is cancelled and focus moves to the container's
\* first focusable element (if any), and a mousedown inside is left alone;
\* with allowOutsideClick=true no mousedown is cancelled or moves focus.
C6_OutsideClick ==
    [][(ev'.op = "mousedown" /\ state.active)
          => LET F == getFocusableElements(Cur)
             IN  IF ~state.allowOutsideClick /\ ~Contains(ev'.target)
                 THEN /\ ev'.defaultPrevented
                      /\ Len(F) > 0 => activeElement' = F[1]
                 ELSE /\ ~ev'.defaultPrevented
                      /\ ~ev'.handlersMovedFocus]_vars

\* A mousedown on an element outside the container was cancelled and focus
\* was pulled from elsewhere to the container's first focusable element.
C6_Witness ==
    /\ ev.op = "mousedown"
    /\ ev.target \in Outside
    /\ ev.defaultPrevented /\ ev.handlersMovedFocus
    /\ state.active /\ ~state.allowOutsideClick
    /\ activeElement = getFirstFocusableElement(Cur)

\* C7: for a roving-tabindex controller, in every state (after construction,
\* key presses, focus events, moveTo in or out of range, destroy) exactly one
\* managed element has tabindex "0", the one at getCurrentIndex(), and every
\* other managed element has "-1"; initially it is index 0.
C7_SingleTabStop ==
    elements # <<>>
        => /\ currentIndex \in 0..(Len(elements) - 1)
           /\ \A i \in 0..(Len(elements) - 1) :
                 tabindex[elements[i + 1]] = IF i = currentIndex THEN "0" ELSE "-1"
           /\ Cardinality({el \in Managed : tabindex[el] = "0"}) = 1
           /\ ev.op = "init" => currentIndex = 0

\* moveTo was called with an index out of range on a controller whose
\* current index had moved off 0.
C7_Witness ==
    /\ elements # <<>>
    /\ ev.op = "moveTo"
    /\ ev.target \notin 0..(Len(elements) - 1)
    /\ currentIndex > 0
    /\ tabindex[elements[currentIndex + 1]] = "0"

\* The step is a key press delivered to the controller's handleKeydown.
RovingKey == ev'.op = "keydown" /\ "handleKeydown" \in ev'.called

\* The index the claim gives for a key pressed at index i of n elements.
ClaimedIndex(key, i, n) ==
    IF key = ForwardKey
    THEN IF i + 1 <= n - 1 THEN i + 1 ELSE IF wrap THEN (i + 1 + n) % n ELSE i
    ELSE IF key = BackKey
    THEN IF i - 1 >= 0 THEN i - 1 ELSE IF wrap THEN (i - 1 + n) % n ELSE i
    ELSE IF key = "Home" THEN 0
    ELSE IF key = "End" THEN n - 1
    ELSE i

\* C8: a key press on a managed element at current index i: the
\* orientation's forward/back arrow moves to i+1 / i-1, past a boundary to
\* (i +/- 1 + n) mod n with wrap and nowhere (no focus change) without; Home
\* moves to 0, End to n-1; every other key leaves the index as it is.  After
\* a change the focused element is the one at the new index.  (The index is
\* read as the controller's handler returns.)
C8_KeyNavigation ==
    [][RovingKey
          => LET n == Len(elements)
                 i == currentIndex
                 j == ClaimedIndex(ev'.key, i, n)
                 known == ev'.key \in {BackKey, ForwardKey, "Home", "End"}
             IN  /\ ev'.indexAtTarget = j
                 /\ known => currentIndex' = j
                 /\ j # i => activeElement' = elements[j + 1]
                 /\ (known /\ ~wrap /\ j = i /\ ev'.key \notin {"Home", "End"})
                       => activeElement' = activeElement]_vars

\* The forward arrow was pressed on the last element of a wrapping group of
\* three or more, and index and focus are on the first element.
C8_Witness ==
    /\ ev.op = "keydown" /\ "handleKeydown" \in ev.called
    /\ ev.key = ForwardKey
    /\ wrap
    /\ Len(elements) >= 3
    /\ currentIndex = 0
    /\ activeElement = elements[1]
    /\ ev.indexAtTarget = 0

\* C9: a key the roving controller handles has its default prevented and its
\* propagation stopped, and no document-level trap handler receives it; a key
\* it does not handle is neither prevented nor stopped by it and reaches the
\* handlers of an active trap.
C9_HandledKeysStopHere ==
    [][RovingKey
          => IF ev'.key \in {BackKey, ForwardKey, "Home", "End"}
             THEN /\ ev'.defaultPrevented
                  /\ ev'.propagationStopped
                  /\ ev'.called = {"handleKeydown"}
             ELSE /\ ~ev'.preventedAtTarget
                  /\ ~ev'.propagationStopped
                  /\ state.active
                        => {"handleTabKey", "handleEscapeKey"} \subseteq ev'.called]_vars

\* A handled key was pressed on a managed element while a trap was active on
\* the same container, and the trap's handlers did not see it.
C9_Witness ==
    /\ ev.op = "keydown"
    /\ ev.key \in {BackKey, ForwardKey, "Home", "End"}
    /\ state.active /\ docListeners = TrapHandlers
    /\ ev.propagationStopped /\ ev.defaultPrevented
    /\ ev.called = {"handleKeydown"}

\* C10: whenever the managed element at position k receives focus, by pointer,
\* script, key or a focus trap, getCurrentIndex() becomes k and that element
\* is the only managed one with tabindex "0".
C10_FocusResyncs ==
    [][(activeElement' # activeElement /\ activeElement' \in Managed)
          => /\ currentIndex' = IndexOf(activeElement')
             /\ \A el \in Managed :
                   tabindex'[el] = IF el = activeElement' THEN "0" ELSE "-1"]_vars

\* A pointer-down focused a managed element other than the first, after
\* destroy() or not, and the index followed.
C10_Witness ==
    /\ ev.op = "mousedown" /\ ~ev.defaultPrevented
    /\ activeElement \in Managed
    /\ activeElement = ev.target
    /\ currentIndex = IndexOf(activeElement)
    /\ currentIndex > 0


\* An event the browser dispatches (a key press, a pointer press, or the
\* focus event of an element.focus() made by other code), with the roving
\* controller destroyed before it.
EventAfterDestroy ==
    /\ elements # <<>>
    /\ keydownListeners = {}
    /\ ev'.op \in {"keydown", "mousedown", "focus"}

\* C11: after destroy() no keydown and no focus event on a managed element
\* changes getCurrentIndex() or a tabindex attribute or is prevented by the
\* controller; the attributes keep the values they had at destroy().
C11_DestroyLeavesNoListener ==
    [][EventAfterDestroy =>
          /\ currentIndex' = currentIndex
          /\ tabindex' = tabindex
          /\ ~ev'.preventedAtTarget]_vars


\* The trap's document listeners are all registered, or none is.
ListenersFollowActive ==
    docListeners = IF state.active THEN TrapHandlers ELSE {}

\* A Tab key press, or a pointer press outside the container.
TabOrOutsidePress ==
    \/ ev'.op = "keydown" /\ ev'.key = "Tab"
    \/ ev'.op = "mousedown" /\ ~Contains(ev'.target)

\* C19: after any sequence of activate(), release() and Escape presses the
\* trap's three document listeners are registered exactly when isActive():
\* with the trap released a Tab keydown or outside mousedown reaches no trap
\* handler, is not prevented and moves no focus; with the trap active (again)
\* both keydown handlers see the Tab and the mousedown handler sees the press.
C19_ListenersIffActive ==
    /\ []ListenersFollowActive
    /\ [][TabOrOutsidePress =>
            IF state.active
            THEN ev'.called \cap TrapHandlers =
                    IF ev'.op = "keydown"
                    THEN {"handleTabKey", "handleEscapeKey"}
                    ELSE {"handleOutsideClick"}
            ELSE /\ ev'.called \cap TrapHandlers = {}
                 /\ ~ev'.defaultPrevented
                 /\ ~ev'.handlersMovedFocus]_vars

\* An Escape press released the trap and took its listeners off document.
C19_Witness ==
    /\ ev.op = "keydown" /\ ev.key = "Escape"
    /\ "handleEscapeKey" \in ev.called
    /\ ~state.active
    /\ docListeners = {}


\* The integer a tabindex attribute stands for.
TabindexValue(text) ==
    CASE text = "0" -> 0
      [] text = "1" -> 1
      [] text = "-1" -> 0 - 1
      [] text = "-2" -> 0 - 2

\* The focusable predicate in the words of the contract.
FocusablePredicate(e) ==
    /\ \/ e.tag \in {"a", "area"} /\ e.href
       \/ e.tag \in {"input", "select", "textarea", "button"} /\ ~e.disabled
       \/ e.tabindex # "none" /\ TabindexValue(e.tabindex) >= 0
       \/ e.tag \in {"audio", "video"} /\ e.controls
       \/ e.contenteditable # "none" /\ e.contenteditable # "false"
    /\ e.offsetWidth > 0 /\ e.offsetHeight > 0
    /\ e.visibility # "hidden"
    /\ ~e.disabled
    /\ e.ariaHidden # "true"

\* C15: getFocusableElements(root) returns exactly the descendants of root
\* that satisfy the focusable predicate (allowlist, visible, not disabled,
\* not aria-hidden="true"), each once and in document order.
C15_ExactlyTheFocusable ==
    queried.done =>
        queried.result =
              SelectSeq([i \in 1..Len(children) |-> i],
                            LAMBDA i : /\ children[i].inContainer
                                       /\ FocusablePredicate(children[i]))


\* The call that announced a message.
CallIndex(message) ==
    CHOOSE k \in 1..Len(announced) : announced[k].message = message

NoClear == \A k \in 1..Len(announced) : ~announced[k].clear

\* announce('A') immediately followed by announce('B'), both with the default
\* delay and without clear, and no other call.
ImmediatePair ==
    /\ Len(announced) = 2
    /\ NoClear
    /\ \A k \in 1..2 : announced[k].delay = DefaultDelay
    /\ announced[2].immediately

\* C12: for announce('A') immediately followed by announce('B'), 'A' is
\* written into the live region before 'B', and 'B' is written only after 'A'
\* has been in the region for the settle interval.
C12_SecondWaitsForFirst ==
    [][(ImmediatePair /\ written' = Append(written, announced[2].message))
          => /\ written = <<announced[1].message>>
             /\ liveRegion.textContent = announced[1].message
             /\ shownFor >= SettleInterval]_vars

\* C13: without clear, for any delays and gaps, messages are written into
\* the live region in the order announce was called.
C13_WrittenInCallOrder ==
    NoClear =>
        \A i, j \in 1..Len(written) :
            i < j => CallIndex(written[i]) < CallIndex(written[j])

\* C14: after announce(m, {clear: true}) no earlier-announced message that
\* was not yet written is ever written, and the next text written is m.
C14_ClearDiscardsPending ==
    \A k \in 1..Len(announced) :
        (announced[k].clear /\ \A l \in (k + 1)..Len(announced) : ~announced[l].clear)
        => /\ \A j \in (announced[k].writtenBefore + 1)..Len(written) :
                 \A i \in 1..(k - 1) : written[j] # announced[i].message
           /\ Len(written) > announced[k].writtenBefore
                 => written[announced[k].writtenBefore + 1] = announced[k].message

\* C20: without clear, no timer blanks the live region before the message
\* it shows has been displayed for the settle interval.
C20_NoEarlyBlanking ==
    [][(/\ NoClear
        /\ announced' = announced
        /\ liveRegion.textContent # ""
        /\ liveRegion'.textContent = "")
          => shownFor >= SettleInterval]_vars


\* A parseable hex colour: six hex digits, with or without the leading '#'.
ParseableHex(color) ==
    /\ color.isString
    /\ LET digits == IF Len(color.chars) > 0 /\ color.chars[1] = "#"
                     THEN Tail(color.chars) ELSE color.chars
       IN  Len(digits) = 6 /\ \A i \in 1..6 : IsHexDigit(digits[i])

\* C18: getContrastRatio returns 0 whenever either argument is not a
\* parseable hex colour; it never returns NaN (and never throws).
C18_InvalidColorGivesZero ==
    contrast.done =>
        /\ ~contrast.ratio.nan
        /\ (~ParseableHex(contrast.color1) \/ ~ParseableHex(contrast.color2))
              => contrast.ratio = Number(0)


\* The message holds printable characters and spaces only.
Printable ==
    \A i \in 1..Len(fieldValue) : fieldValue[i].ch \notin ControlCharacters

\* One of the three validators has judged the message.
Validated == validated.by # "none"

\* C16 as claimed: validateMessage, contact-form.js validateField and
\* main.js validateField accept a message of printable characters exactly
\* when its length after trimming surrounding whitespace is between 10 and
\* 1000.
C16_AcceptsExactlyInRange ==
    (Validated /\ Printable)
        => (validated.isValid <=> length(trim(fieldValue)) \in 10..1000)

\* C16, amended: the three validators accept a message of printable
\* characters exactly when its trimmed length is between 10 and 1000, except
\* that contact-form.js validateField, called with isRequired false, also
\* accepts a message whose trimmed length is 0.
C16_MessageLengthBounds ==
    (Validated /\ Printable)
        => (validated.isValid <=>
                \/ length(trim(fieldValue)) \in 10..1000
                \/ /\ validated.by = "contact-form.js"
                   /\ ~validated.isRequired
                   /\ length(trim(fieldValue)) = 0)


\* contact-form.js, for a field without the required attribute, accepted a
\* message of exactly 1000 characters that was typed with whitespace around
\* it.
C16_Witness ==
    /\ validated.by = "contact-form.js"
    /\ ~validated.isRequired
    /\ validated.isValid
    /\ Printable
    /\ length(trim(fieldValue)) = 1000
    /\ length(fieldValue) > 1000


\* The status messages shown for submit event k, in order.
OutcomesOf(k) == SelectSeq(statusLog, LAMBDA entry : entry.submission = k)

\* Nothing of submit event k is pending any more.
SettledSubmit(k) ==
    /\ submissions[k].fetch # "pending"
    /\ \A i \in 1..Len(submitTimers) : submitTimers[i].submission # k

FailureMessage ==
    "Sorry, there was an error submitting your message. Please try again later."

\* C17: for every submit that both handlers accept and whose POST fails
\* (non-2xx or rejection) no success message is ever shown, and once its
\* handlers are done the failure message is its single outcome and, if no
\* later submit followed, what the status region shows.
C17_FailedSubmitShowsFailure ==
    \A k \in 1..Len(submissions) :
        (submissions[k].accepted
            /\ submissions[k].fetch \in {"non2xx", "rejected"})
        => /\ \A i \in 1..Len(OutcomesOf(k)) : OutcomesOf(k)[i].type # "success"
           /\ SettledSubmit(k)
                 => /\ Len(OutcomesOf(k)) = 1
                    /\ OutcomesOf(k)[1].message = FailureMessage
           /\ (SettledSubmit(k) /\ k = Len(submissions))
                 => /\ formStatus.textContent = FailureMessage
                    /\ formStatus.display = "block"


\* A timer callback writes a message's text into the live region.
TextWritten == Len(written') = Len(written) + 1

\* C21: at the moment a message's text is written into the live region, the
\* region's aria-live attribute equals that message's own politeness.
C21_AriaLiveOfWrittenMessage ==
    [][TextWritten =>
        liveRegion'.ariaLive =
            announced[CallIndex(written'[Len(written')])].politeness]_vars

\* C22: the announcer appends at most one live region: none before the
\* first valid announce, exactly one from then on, and the region is never
\* removed or made again.
C22_OneLiveRegion ==
    /\ [](/\ appendedRegions <= 1
          /\ liveRegion.exists <=> appendedRegions = 1
          /\ liveRegion.exists <=> announced # <<>>)
    /\ [][liveRegion.exists =>
             liveRegion'.exists /\ appendedRegions' = appendedRegions]_vars

C22_Witness ==
    /\ Len(announced) = MaxAnnouncements
    /\ Len(written) = MaxAnnouncements
    /\ appendedRegions = 1


\* A load of el made through loadImageWithRetry, and whether it is in flight
\* or has settled.
Retried(el) == imageLoad[el].attempts > 0

InFlight(el) == imageLoad[el].phase \in {"loading", "waiting"}

Settled(el) == imageLoad[el].phase \in {"resolved", "rejected"}

\* The attempts made and the waits between them, in every state of a load.
RetryBudget(el) ==
    LET load == imageLoad[el]
    IN  /\ load.attempts <= load.maxRetries + 1
        /\ Len(load.waits) = IF load.phase = "waiting" THEN load.attempts
                             ELSE load.attempts - 1
        /\ \A k \in 1..Len(load.waits) :
               load.waits[k] = load.retryDelay * pow(2, k - 1)
        /\ load.phase = "rejected" => load.attempts = load.maxRetries + 1

\* A step of one load: an attempt starts only when a wait of the load has
\* elapsed, a load event resolves it at once, and a settled load makes no
\* further attempt.
RetryStep(el) ==
    imageLoad[el].started = imageLoad'[el].started
    => /\ imageLoad'[el].attempts > imageLoad[el].attempts
          => /\ imageLoad[el].phase = "waiting"
             /\ \E i \in DueImageTimers : imageTimers[i].element = el
       /\ (imageLoad[el].phase = "loading" /\ imageLoad'[el].phase = "resolved")
          => imageLoad'[el].attempts = imageLoad[el].attempts
       /\ Settled(el) => imageLoad'[el] = imageLoad[el]

\* C23: loadImageWithRetry makes at most maxRetries + 1 attempts, waits
\* retryDelay * 2^k ms before retry k + 1, resolves on the first success
\* without another attempt, rejects once the last allowed attempt fails, and
\* always settles when every attempt fires load or error.
C23_RetryBudgetAndSettles ==
    /\ [](\A el \in ImageElements : Retried(el) => RetryBudget(el))
    /\ [][\A el \in ImageElements : Retried(el) => RetryStep(el)]_vars
    /\ \A el \in ImageElements : InFlight(el) ~> Settled(el)

C23_Witness ==
    \E el \in ImageElements :
        /\ imageLoad[el].phase = "rejected"
        /\ imageLoad[el].maxRetries = MaxRetryAttempts
        /\ imageLoad[el].attempts = MaxRetryAttempts + 1
        /\ Len(imageLoad[el].waits) = MaxRetryAttempts

\* C25: an element has an entry in loadingStates exactly while a load of it
\* is in flight; once the load has settled the entry is gone.
C25_EntryWhileInFlight ==
    \A el \in ImageElements : el \in loadingStates <=> InFlight(el)


\* C24: at most one animation-frame callback is pending, it belongs to the
\* most recently started scroll and is the one scrollState holds, and
\* isScrolling is true exactly while such a callback is pending.
C24_SingleFrameCallback ==
    /\ Cardinality(frameCallbacks) <= 1
    /\ \A cb \in frameCallbacks :
           /\ cb.scroll = Len(scrolls)
           /\ cb.id = scrollState.animationFrameId
    /\ scrollState.isScrolling <=> frameCallbacks # {}

\* A second scroll superseded the first, which had made a frame.
C24_Witness ==
    /\ Len(scrolls) = MaxScrolls
    /\ scrolls[1].elapsed > 0
    /\ scrolls[1].promise = "pending"
    /\ frameCallbacks # {}
    /\ scrolls[Len(scrolls)].elapsed > 0

\* C28: every promise returned by smoothScrollToPosition eventually
\* settles when animation frames keep firing, also when the scroll is
\* superseded or cancelled.
C28_ScrollPromiseSettles ==
    \A k \in 1..MaxScrolls :
        (Len(scrolls) >= k)
            ~> (Len(scrolls) >= k /\ scrolls[k].promise # "pending")


\* The submit events whose POST is in flight.
InFlightPosts == {k \in 1..Len(submissions) : submissions[k].fetch = "pending"}

SubmitArrives == Len(submissions') = Len(submissions) + 1

RequestSettles ==
    \E k \in InFlightPosts : submissions'[k].fetch # "pending"

\* C26: at most one POST is in flight at any time; a submit event that
\* arrives while formSubmitting is true issues no request, and
\* formSubmitting is false again once the request in flight has settled,
\* with either outcome.
C26_OnePostInFlight ==
    /\ [](/\ Cardinality(InFlightPosts) <= 1
          /\ formSubmitting <=> InFlightPosts # {})
    /\ [][(formSubmitting /\ SubmitArrives)
             => /\ submissions'[Len(submissions')].fetch = "none"
                /\ InFlightPosts' = InFlightPosts]_vars
    /\ [][RequestSettles => ~formSubmitting']_vars

\* A submit event arrived while the POST of the first was in flight.
C26_Witness ==
    /\ Len(submissions) = 2
    /\ submissions[1].fetch = "pending"
    /\ submissions[2].fetch = "none"
    /\ submissions[2].accepted
    /\ formSubmitting


\* The fields main.js's rules mark as required.
RequiredByMain ==
    {fieldName \in FieldNames : validationRulesOfForm[fieldName].required}

\* C27: whenever main.js's validateForm passes, so that the POST is issued,
\* contact-form.js's validateForm passes for the same field values (with
\* the required attributes on the fields main.js requires).
C27_ValidatorsAgree ==
    (judged.done /\ judged.required = RequiredByMain /\ judged.byMain)
        => judged.byContactForm


\* The deferred focus of the first menu link runs.
DeferredFocusFires ==
    /\ DueNavTimers # {}
    /\ navTimers[NextDueNavTimer].callback = "focusFirstLink"
    /\ Len(navTimers') = Len(navTimers) - 1

\* C30: closeMobileMenu leaves focus on the toggle button, and the deferred
\* focus of the first menu link never fires into a menu that has been
\* closed: it does not run while the menu is closed and moves no focus.
C30_NoFocusIntoClosedMenu ==
    /\ [][(isMenuOpen /\ ~isMenuOpen') => navFocus' = "navToggle"]_vars
    /\ [][DeferredFocusFires => (isMenuOpen /\ isMenuOpen')]_vars
    /\ [][(DeferredFocusFires /\ ~isMenuOpen) => navFocus' = navFocus]_vars


\* Both traps are active and neither allows outside clicks.
BothTrapsActive ==
    \A t \in PairTraps :
        pairTraps[t].active /\ ~pairTraps[t].allowOutsideClick

\* A pointer-down lands inside container B while both traps are active.
PressInsideB ==
    /\ BothTrapsActive
    /\ pairEvent'.op = "mousedown"
    /\ containsOfPair("B", pairEvent'.target)

\* C29: trap instances do not coordinate: activating or releasing one trap
\* leaves the other trap's state and listener alone, so both can be active
\* at once; and while traps with allowOutsideClick=false are active on the
\* disjoint containers A and B, a pointer-down inside B is cancelled by A's
\* handler (and not by B's) and focus is moved to A's first focusable
\* element, when A has one.
C29_TrapsDoNotCoordinate ==
    /\ [][\A t \in PairTraps :
            pairEvent'.op \in {"activate", "release"} /\ pairEvent'.target # t
                => /\ pairTraps'[t] = pairTraps[t]
                   /\ (t \in Range(pairListeners')) = (t \in Range(pairListeners))]_vars
    /\ [][PressInsideB
            => /\ pairEvent'.defaultPrevented
               /\ pairEvent'.propagationStopped
               /\ pairEvent'.cancelledBy = {"A"}
               /\ Range(pairEvent'.called) = PairTraps
               /\ pairFocus' =
                      IF getFirstFocusableElementOfPair(CurPair, "A") # "null"
                      THEN getFirstFocusableElementOfPair(CurPair, "A")
                      ELSE pairFocus]_vars

\* Trap A was activated first and trap B after it; a pointer-down on the
\* button of B was cancelled by A's handler and focus went from B to A's
\* first button.
C29_Witness ==
    /\ BothTrapsActive
    /\ pairListeners = <<"A", "B">>
    /\ pairEvent.op = "mousedown"
    /\ pairEvent.target = "b1"
    /\ pairEvent.defaultPrevented
    /\ pairEvent.cancelledBy = {"A"}
    /\ pairDisabled = {}
    /\ pairFocus = "a1"

============================================================================
